---- MODULE Spec2Model ----
(***************************************************************************)
(* Model of src/ss_zeme.py: the two-phase crawler of the ss.lv             *)
(* plots-and-lands hierarchy (discovery of regions, subregions and listing *)
(* pages, then collection of ad links and extraction of ad details).       *)
(*                                                                         *)
(* URLs are sequences of tokens: a token is either the separator "/" or a  *)
(* maximal slash-free piece of the string ("https:", "www.ss.lv", "riga",  *)
(* "sell", "page2.html").  Every string operation of the source that the   *)
(* model needs (startswith, rstrip("/"), strip("/").split("/"), the        *)
(* /sell tail regex, concatenation) acts on slash boundaries, so it is     *)
(* computed on the tokens exactly as Python computes it on the characters. *)
(***************************************************************************)
EXTENDS Naturals, Sequences, FiniteSets, TLC

VARIABLES
    entry,          \* the function the caller invoked
    pc,             \* control position inside it
    raised_in,      \* the function whose request raised, "" while none did
    listing,        \* the remote listing of one category: page n answers listing[min(n, Len)]
    sell_url,       \* discover_pagination_for_sell: argument
    max_pages,      \* discover_pagination_for_sell: argument (default 300)
    pages,          \* discover_pagination_for_sell: local list
    page,           \* discover_pagination_for_sell: local counter
    pag_requests,   \* the URLs discover_pagination_for_sell asked listing_rows for, in order
    pag_calls,      \* the sell URLs phase1_discover_inventory called discover_pagination_for_sell with, in order
    regions,        \* phase1_discover_inventory: the regions found under the root
    subregions_by_region, \* phase1_discover_inventory: region -> its subregions
    listing_pages,  \* phase1_discover_inventory: <<owner, page url>> pairs
    ri,             \* phase1_discover_inventory: position of "for reg in regions"
    targets,        \* phase1_discover_inventory: pagination targets of the current region
    ti,             \* phase1_discover_inventory: position of "for target in targets"
    cat_fetches,    \* the category URLs fetched through get_soup, in order
    graph,          \* the canonical category URLs of the link graph served so far
    seen,           \* collect_ad_links_from_pages: local set
    all_links,      \* collect_ad_links_from_pages: local list
    idx,            \* collect_ad_links_from_pages: position of the loop over listing_pages
    last_links,     \* the links on the rows of the last listing page answered
    found,          \* the links on the rows of the listing pages answered so far
    ad_links,       \* phase2_scrape_inventory: the collected links
    ai,             \* phase2_scrape_inventory: position of the loop over ad_links
    details,        \* phase2_scrape_inventory: the records parsed so far
    ad_log,         \* every ad request made: <<link, whether extraction succeeded>>
    df,             \* phase2_scrape_inventory: the returned table, a sequence of records
    retries,        \* sess().get: Retry.total of the Retry object of the request in flight
    attempts,       \* sess().get: what the server answered to each attempt, in order
    get_outcome,    \* sess().get: "" in flight, "response", or the exception raised
    site,           \* the remote site when it does not change during the run: its
                    \* category pages and its ad pages (its listing is listing)
    arg,            \* a helper function called by itself: its argument
    ret             \* a helper function called by itself: what its calls returned, in order

pagVars == <<sell_url, max_pages, pages, page, pag_requests>>

phase1Vars == <<regions, subregions_by_region, listing_pages, ri, targets, ti, cat_fetches, graph>>

collectVars == <<seen, all_links, idx>>

phase2Vars == <<ad_links, ai, details, ad_log, df>>

traffic == <<last_links, found>>

session == <<retries, attempts, get_outcome>>

call == <<arg, ret>>

vars == <<entry, pc, raised_in, listing, pagVars, phase1Vars, collectVars, phase2Vars, traffic,
          session, site, call, pag_calls>>

-----------------------------------------------------------------------------
(* Bounds of the model *)

\* the longest listing table of a category (its last entry repeats for ever)
MaxSitePages == 3
\* the largest max_pages argument handed to discover_pagination_for_sell
MaxPagesArg == 3

-----------------------------------------------------------------------------
(* Sequences *)

Last(s) == s[Len(s)]

StartsWith(s, p) == Len(p) <= Len(s) /\ SubSeq(s, 1, Len(p)) = p

SeqsUpTo(S, n) == UNION {[1..k -> S] : k \in 0..n}

NonEmptySeqsUpTo(S, n) == UNION {[1..k -> S] : k \in 1..n}

HasDuplicates(s) == \E i, j \in 1..Len(s) : i # j /\ s[i] = s[j]

Range(s) == {s[i] : i \in 1..Len(s)}

Min(a, b) == IF a <= b THEN a ELSE b

Least(S) == CHOOSE x \in S : \A y \in S : x <= y

-----------------------------------------------------------------------------
(* URLs *)

BASE == <<"https:", "/", "/", "www.ss.lv">>

RootPath == <<"/", "lv", "/", "real-estate", "/", "plots-and-lands", "/">>

ROOT == BASE \o RootPath

\* str.rstrip("/")
RECURSIVE Rstrip(_)
Rstrip(u) == IF u # <<>> /\ Last(u) = "/" THEN Rstrip(SubSeq(u, 1, Len(u) - 1)) ELSE u

\* str.lstrip("/")
RECURSIVE Lstrip(_)
Lstrip(u) == IF u # <<>> /\ u[1] = "/" THEN Lstrip(Tail(u)) ELSE u

\* where re.search(r"/sell(?:/.*)?$", u) matches: the leftmost "/" followed by
\* "sell" and then by the end of the string or by another "/"; 0 when none
SellMatch(u) ==
    LET hits == {i \in 1..Len(u) :
                    /\ u[i] = "/"
                    /\ i + 1 <= Len(u)
                    /\ u[i + 1] = "sell"
                    /\ (i + 1 = Len(u) \/ u[i + 2] = "/")}
    IN IF hits = {} THEN 0 ELSE CHOOSE i \in hits : \A j \in hits : i <= j

\* re.sub(r"/sell(?:/.*)?$", "", u)
StripSell(u) == IF SellMatch(u) = 0 THEN u ELSE SubSeq(u, 1, SellMatch(u) - 1)

\* norm_cat without its rstrip("/")
norm_cat_no_rstrip(url) ==
    LET abs == IF StartsWith(url, <<"/">>) THEN BASE \o url ELSE url
    IN StripSell(abs) \o <<"/">>

norm_cat(url) ==
    LET abs == IF StartsWith(url, <<"/">>) THEN BASE \o url ELSE url
    IN StripSell(Rstrip(abs)) \o <<"/">>

\* f"{sell_url}page{page}.html" for page > 1, the bare sell_url for page 1
PageUrl(sell, n) == IF n = 1 THEN sell ELSE sell \o <<"page" \o ToString(n) \o ".html">>

-----------------------------------------------------------------------------
(* Listing pages as the server answers them *)

\* a <tr>: its id attribute (characters, <<>> when it has none), the number of
\* its <td> cells and the href of the anchor in its second cell (<<>>: none)
Row(id, tds, href) == [id |-> id, tds |-> tds, href |-> href]

AdHref(k) == <<"/", "msg", "/", "lv", "/", "real-estate", "/", "plots-and-lands", "/", "ad" \o ToString(k) \o ".html">>

AdRow(k) == Row(<<"t", "r", "_", ToString(k)>>, 3, AdHref(k))

HeadRow == Row(<<"h", "e", "a", "d">>, 3, <<>>)

\* tr.get("id", "").startswith("tr_")
Qualifies(row) == StartsWith(row.id, <<"t", "r", "_">>)

\* A response to a GET of a listing page: a transport failure (exc), or a
\* status, the <tr> rows of the body and where the request finally resolved:
\* "same" the requested URL, "slash" the requested URL plus a trailing slash,
\* "base" the category's bare /sell/ URL, "root" the category page itself.
Resp(status, rows, final) == [exc |-> FALSE, status |-> status, rows |-> rows, final |-> final]

ExcResp == [exc |-> TRUE, status |-> 0, rows |-> <<>>, final |-> "same"]

Finals == {"same", "slash", "base", "root"}

\* the answers to the request of a listing page: a page with a listing row,
\* resolved at any of the four places; a page with no listing row; an error
\* status; a transport failure
PagResponses ==
    {Resp(200, <<HeadRow, AdRow(1)>>, f) : f \in Finals}
        \cup {Resp(200, <<HeadRow>>, "same"), Resp(404, <<AdRow(1)>>, "same"), ExcResp}

\* r.url of the response r to a GET of url, a listing page under sell
FinalUrl(r, url, sell) ==
    CASE r.final = "same"  -> url
      [] r.final = "slash" -> url \o <<"/">>
      [] r.final = "base"  -> sell
      [] r.final = "root"  -> norm_cat(sell)

\* a listing_rows that takes every <tr> of the body for a listing row
listing_rows_unfiltered(r, url, sell) ==
    [rows  |-> IF r.status # 200 THEN <<>> ELSE r.rows,
     final |-> FinalUrl(r, url, sell)]

\* listing_rows(url): ([], r.url) unless the status is 200, else the qualifying rows
listing_rows(r, url, sell) ==
    [rows  |-> IF r.status # 200 THEN <<>> ELSE SelectSeq(r.rows, Qualifies),
     final |-> FinalUrl(r, url, sell)]

\* what the listing table answers for page n
Answer(table, n) == table[IF n <= Len(table) THEN n ELSE Len(table)]

ListingSites == NonEmptySeqsUpTo(PagResponses, MaxSitePages)

-----------------------------------------------------------------------------
(* discover_pagination_for_sell *)

SomeSell == norm_cat(ROOT \o <<"riga", "/">>) \o <<"sell", "/">>

\* a guard that lets one page too many through
LoopGuardOffByOne(p, mp) == p <= mp + 1

\* while page <= max_pages
LoopGuard(p, mp) == p <= mp

\* a check that never sees a redirect
RedirectedNever(p, final, url) == FALSE

\* a check that holds for the first page too
RedirectedAnyPage(p, final, url) == Rstrip(final) # Rstrip(url)

\* page > 1 and final_url.rstrip("/") != url.rstrip("/")
Redirected(p, final, url) == p > 1 /\ Rstrip(final) # Rstrip(url)

\* one iteration of the while loop, the request answered by r
PagIteration(r) ==
    /\ pc = "paginate"
    /\ LoopGuard(page, max_pages)
    /\ LET url == PageUrl(sell_url, page)
           got == listing_rows(r, url, sell_url)
       IN /\ pag_requests' = Append(pag_requests, url)
          /\ IF r.exc
             THEN /\ pc' = "raised"
                  /\ raised_in' = "listing_rows"
                  /\ UNCHANGED <<pages, page>>
             ELSE /\ raised_in' = raised_in
                  /\ IF Redirected(page, got.final, url)
                     THEN pc' = "pag_return" /\ UNCHANGED <<pages, page>>
                     ELSE IF got.rows = <<>>
                          THEN pc' = "pag_return" /\ UNCHANGED <<pages, page>>
                          ELSE /\ pages' = Append(pages, url)
                               /\ page' = page + 1
                               /\ pc' = pc
    /\ UNCHANGED <<pag_calls, call, site, session, traffic, entry, listing, sell_url, max_pages, phase1Vars, collectVars, phase2Vars>>

\* the loop ends because page > max_pages
PagExhausted ==
    /\ pc = "paginate"
    /\ ~LoopGuard(page, max_pages)
    /\ pc' = "pag_return"
    /\ UNCHANGED <<pag_calls, call, site, session, traffic, entry, raised_in, listing, pagVars, phase1Vars, collectVars, phase2Vars>>

\* the request of the current page, answered by the category's listing table
PagStep == PagIteration(Answer(listing, page))

\* return pages, to a caller that called discover_pagination_for_sell itself
PagReturn ==
    /\ pc = "pag_return"
    /\ entry = "discover_pagination_for_sell"
    /\ pc' = "done"
    /\ UNCHANGED <<pag_calls, call, site, session, traffic, entry, raised_in, listing, pagVars, phase1Vars, collectVars, phase2Vars>>

-----------------------------------------------------------------------------
(* The shared session: sess() mounts HTTPAdapter(max_retries=_make_retry()) on
   "https://", and every URL the program requests starts with BASE.  One GET
   is a run of urlopen attempts steered by the Retry object: each attempt is
   answered by a status or fails with a transport error *)

\* Retry(total=3, ...)
RetryTotal == 3

\* status_forcelist=(429, 500, 502, 503, 504), widened to every error status
status_forcelist_all_errors == {404, 413, 429, 500, 502, 503, 504}

\* status_forcelist=(429, 500, 502, 503, 504)
status_forcelist == {429, 500, 502, 503, 504}

\* allowed_methods=frozenset(["GET"])
allowed_methods == {"GET"}

\* Retry.RETRY_AFTER_STATUS_CODES, consulted because respect_retry_after_header
\* keeps its default True
RETRY_AFTER_STATUS_CODES == {413, 429, 503}

\* what the server does with one attempt: it answers a status, with or without
\* a Retry-After header, or the attempt fails with a transport error
StatusAnswer(code, after) ==
    [kind |-> "status", status |-> code, retry_after |-> after, error |-> ""]

ErrorAnswer(e) ==
    [kind |-> "error", status |-> 0, retry_after |-> FALSE, error |-> e]

ServerAnswers ==
    {StatusAnswer(c, FALSE) : c \in {200, 404, 413, 429, 500, 502, 503, 504}}
      \cup {StatusAnswer(413, TRUE), StatusAnswer(503, TRUE)}
      \cup {ErrorAnswer(e) : e \in {"ConnectTimeoutError", "ReadTimeoutError", "NewConnectionError"}}

\* Retry.is_retry(method, status_code, has_retry_after) of a Retry whose total
\* is the given one
is_retry(total, method, status_code, has_retry_after) ==
    IF method \notin allowed_methods
    THEN FALSE
    ELSE IF status_forcelist # {} /\ status_code \in status_forcelist
         THEN TRUE
         ELSE total # 0 /\ has_retry_after /\ status_code \in RETRY_AFTER_STATUS_CODES

\* Retry.is_exhausted: of the counters that are set and not zero, the least is
\* below zero; only total is set (connect, read, redirect, status, other stay None)
is_exhausted(total) ==
    LET retry_counts == {total} \ {0}
    IN retry_counts # {} /\ Least(retry_counts) < 0

\* Retry.increment: one off total, MaxRetryError when that exhausts the Retry.
\* HTTPAdapter.send turns the MaxRetryError of a status into RetryError and
\* that of a transport error into ConnectionError
Increment(a) ==
    /\ retries' = retries - 1
    /\ IF is_exhausted(retries - 1)
       THEN /\ pc' = "raised"
            /\ raised_in' = "get"
            /\ get_outcome' = IF a.kind = "status" THEN "RetryError" ELSE "ConnectionError"
       ELSE UNCHANGED <<pc, raised_in, get_outcome>>

\* one attempt of urlopen that the server answers with a status: a status
\* is_retry accepts is retried through increment, any other is returned
UrlopenResponse ==
    /\ entry = "get"
    /\ pc = "urlopen"
    /\ \E a \in {x \in ServerAnswers : x.kind = "status"} :
          /\ attempts' = Append(attempts, a)
          /\ IF is_retry(retries, "GET", a.status, a.retry_after)
             THEN Increment(a)
             ELSE /\ pc' = "done"
                  /\ get_outcome' = "response"
                  /\ UNCHANGED <<retries, raised_in>>
    /\ UNCHANGED <<pag_calls, call, site, traffic, entry, listing, pagVars, phase1Vars, collectVars, phase2Vars>>

\* one attempt of urlopen that fails with a transport error: GET is an allowed
\* method and connect, read and other are None, so increment decides
UrlopenError ==
    /\ entry = "get"
    /\ pc = "urlopen"
    /\ \E a \in {x \in ServerAnswers : x.kind = "error"} :
          /\ attempts' = Append(attempts, a)
          /\ Increment(a)
    /\ UNCHANGED <<pag_calls, call, site, traffic, entry, listing, pagVars, phase1Vars, collectVars, phase2Vars>>

\* no request of the session is being followed
IdleSession ==
    /\ retries = RetryTotal
    /\ attempts = <<>>
    /\ get_outcome = ""

\* no helper function is called by itself
IdleCall == arg = <<>> /\ ret = <<>>

\* the run is not set against a site that stays as it is
NoSite == [cats |-> <<>>, ads |-> <<>>, lacks |-> <<>>]

IdleSite == site = NoSite

\* the variables of the functions that a call does not reach
IdlePhase1 ==
    /\ regions = <<>>
    /\ subregions_by_region = <<>>
    /\ listing_pages = <<>>
    /\ ri = 0
    /\ targets = <<>>
    /\ ti = 0
    /\ cat_fetches = <<>>
    /\ graph = {}

IdleCollect ==
    /\ seen = {}
    /\ all_links = <<>>
    /\ idx = 0
    /\ last_links = <<>>
    /\ found = {}

IdlePhase2 ==
    /\ ad_links = <<>>
    /\ ai = 0
    /\ details = <<>>
    /\ ad_log = <<>>
    /\ df = <<>>

InitPag ==
    /\ entry = "discover_pagination_for_sell"
    /\ pc = "paginate"
    /\ raised_in = ""
    /\ listing \in ListingSites
    /\ sell_url = SomeSell
    /\ max_pages \in 1..MaxPagesArg
    /\ pages = <<>>
    /\ page = 1
    /\ pag_requests = <<>>
    /\ IdlePhase1
    /\ IdleCollect
    /\ IdlePhase2
    /\ IdleSession
    /\ pag_calls = <<>>
    /\ IdleCall
    /\ IdleSite

NextPag == PagStep \/ PagExhausted \/ PagReturn

SpecPag == InitPag /\ [][NextPag]_vars /\ WF_vars(NextPag)

-----------------------------------------------------------------------------
(* Claims about discover_pagination_for_sell, checked under SpecPag *)

\* the URLs of pages 1..k of the category, in order
PagesUpTo(k) == [n \in 1..k |-> PageUrl(sell_url, n)]

\* the page answers with at least one qualifying row and is not redirected
GoodPage(r) ==
    /\ ~r.exc
    /\ r.status = 200
    /\ \E i \in 1..Len(r.rows) : Qualifies(r.rows[i])
    /\ r.final = "same"

\* the page answers with no qualifying row
EmptyPage(r) ==
    /\ ~r.exc
    /\ r.status = 200
    /\ \A i \in 1..Len(r.rows) : ~Qualifies(r.rows[i])

\* pages 1..k of the category are good and page k+1 is empty
HasPages(table, k) ==
    /\ \A n \in 1..k : GoodPage(Answer(table, n))
    /\ EmptyPage(Answer(table, k + 1))

\* C3 as stated: for a category whose pages 1..k each return a qualifying row
\* without redirect and whose page k+1 returns none, the result is exactly the
\* URLs of pages 1..k in order and no page beyond k+1 is requested.
C3_PagesExactlyK ==
    pc = "done" =>
        \A k \in 0..MaxSitePages :
            HasPages(listing, k) =>
                /\ pages = PagesUpTo(k)
                /\ Len(pag_requests) <= k + 1

\* C3 amended: for such a category the result is exactly the URLs of pages
\* 1..min(k, max_pages) in order (page 1 the bare sell_url, page N > 1
\* sell_url + "pageN.html"), and the requests are those of pages
\* 1..min(k + 1, max_pages), none beyond k+1.
C3_PagesUpToCap ==
    pc = "done" =>
        \A k \in 0..MaxSitePages :
            HasPages(listing, k) =>
                /\ pages = PagesUpTo(Min(k, max_pages))
                /\ pag_requests = PagesUpTo(Min(k + 1, max_pages))

C3_Witness ==
    /\ pc = "done"
    /\ HasPages(listing, 2)
    /\ max_pages = 3
    /\ pages = <<SomeSell, SomeSell \o <<"page2.html">>>>
    /\ Len(pag_requests) = 3

\* page n was requested and the request resolved to a URL other than the one asked for
RedirectedAt(n) ==
    /\ n <= Len(pag_requests)
    /\ ~Answer(listing, n).exc
    /\ FinalUrl(Answer(listing, n), PageUrl(sell_url, n), sell_url) # PageUrl(sell_url, n)

\* the same, the two URLs differing by more than trailing slashes
RedirectedAwayAt(n) ==
    /\ n <= Len(pag_requests)
    /\ ~Answer(listing, n).exc
    /\ Rstrip(FinalUrl(Answer(listing, n), PageUrl(sell_url, n), sell_url))
          # Rstrip(PageUrl(sell_url, n))

\* C4 as stated: if the request for page N > 1 resolves to a URL that differs
\* from the requested one, pagination stops and returns exactly pages 1..N-1,
\* whatever rows the redirected body holds.
C4_RedirectStops ==
    pc = "done" =>
        \A n \in 2..(MaxPagesArg + 1) : RedirectedAt(n) => pages = PagesUpTo(n - 1)

\* C4 amended: if the request for page N > 1 resolves to a URL that differs
\* from the requested one by more than trailing slashes, pagination stops and
\* returns exactly pages 1..N-1, whatever rows the redirected body holds.
C4_RedirectAwayStops ==
    pc = "done" =>
        \A n \in 2..(MaxPagesArg + 1) : RedirectedAwayAt(n) => pages = PagesUpTo(n - 1)

C4_Witness ==
    /\ pc = "done"
    /\ RedirectedAwayAt(2)
    /\ GoodPage(Answer(listing, 1))
    /\ \E i \in 1..Len(Answer(listing, 2).rows) : Qualifies(Answer(listing, 2).rows[i])
    /\ pages = <<SomeSell>>

\* C5: discover_pagination_for_sell terminates, having issued at most
\* max_pages requests and collected at most max_pages page URLs, also when
\* every page it asks for is non-empty and not redirected.
C5_PaginationBounded ==
    /\ [](Len(pag_requests) <= max_pages /\ Len(pages) <= max_pages)
    /\ <>(pc \in {"done", "raised"})

C5_Witness ==
    /\ pc = "done"
    /\ max_pages = MaxPagesArg
    /\ \A n \in 1..(max_pages + 1) : GoodPage(Answer(listing, n))
    /\ Len(pag_requests) = max_pages
    /\ pages = PagesUpTo(max_pages)

-----------------------------------------------------------------------------
(* Category pages as the server answers them *)

\* an <a> element: its class and its href (NoHref when it has none)
Anchor(cls, href) == [cls |-> cls, href |-> href]

NoHref == <<>>

HRiga == RootPath \o <<"riga", "/">>

HRigaBare == RootPath \o <<"riga">>

HRigaSell == RootPath \o <<"riga", "/", "sell", "/">>

\* the /sell/ listing of riga written with a repeated slash
HRigaSlashesSell == RootPath \o <<"riga", "/", "/", "sell", "/">>

HJurmala == RootPath \o <<"jurmala", "/">>

HCentre == RootPath \o <<"riga", "/", "centre", "/">>

HKauguri == RootPath \o <<"jurmala", "/", "kauguri", "/">>

HOldTown == RootPath \o <<"riga", "/", "centre", "/", "old-town", "/">>

HTransport == <<"/", "lv", "/", "transport", "/">>

\* the anchors a category page may carry
SiteAnchors ==
    {Anchor("a_category", h) :
        h \in {RootPath, HRiga, HRigaBare, HRigaSell, HRigaSlashesSell, HJurmala, HCentre,
               HKauguri, HOldTown, HTransport}}
        \cup {Anchor("a_menu", HJurmala)}

\* the longest anchor list of a category page
MaxAnchors == 2

\* A response to a GET of a category page: a transport failure or exhausted
\* retries (exc), or a status and the <a> elements of the body in page order.
CatResp(status, anchors) == [exc |-> FALSE, status |-> status, anchors |-> anchors]

CatExc == [exc |-> TRUE, status |-> 0, anchors |-> <<>>]

CatResponses ==
    {CatResp(200, a) : a \in SeqsUpTo(SiteAnchors, MaxAnchors)}
        \cup {CatResp(404, <<>>), CatExc}

\* r.raise_for_status() raises
RaisesForStatus(status) == 400 <= status /\ status < 600

\* get_soup raises: the GET failed, or its status is an error status
GetSoupRaises(r) == r.exc \/ RaisesForStatus(r.status)

\* soup.find_all("a", class_="a_category", href=True)
CategoryAnchors(anchors) ==
    SelectSeq(anchors, LAMBDA a : a.cls = "a_category" /\ a.href # NoHref)

\* href.startswith("/lv/real-estate/plots-and-lands/")
InScope(href) == StartsWith(href, RootPath)

\* len(url.strip("/").split("/"))
Parts(u) ==
    LET t == Lstrip(Rstrip(u))
    IN 1 + Cardinality({i \in 1..Len(t) : t[i] = "/"})

\* The tokens in ascending order of Python's string comparison.  No name is a
\* prefix of another, so comparing two URLs token by token gives the order of
\* comparing them character by character.
TokenOrder ==
    <<"/", "centre", "https:", "jurmala", "kauguri", "lv", "old-town", "plots-and-lands",
      "real-estate", "riga", "sell", "transport", "www.ss.lv">>

TokRank(t) == CHOOSE i \in 1..Len(TokenOrder) : TokenOrder[i] = t

\* a < b for two URLs, as Python compares strings
UrlLess(a, b) ==
    \/ Len(a) < Len(b) /\ SubSeq(b, 1, Len(a)) = a
    \/ \E i \in 1..Min(Len(a), Len(b)) :
          /\ SubSeq(a, 1, i - 1) = SubSeq(b, 1, i - 1)
          /\ TokRank(a[i]) < TokRank(b[i])

\* sorted(urls)
RECURSIVE SortUrls(_)
SortUrls(s) ==
    IF s = <<>> THEN <<>>
    ELSE LET rest == SortUrls(Tail(s))
             k == Cardinality({i \in 1..Len(rest) : UrlLess(rest[i], Head(s))})
         IN SubSeq(rest, 1, k) \o <<Head(s)>> \o SubSeq(rest, k + 1, Len(rest))

\* the for loop of discover_regions over the anchors left, without its seen set
RECURSIVE RegionScanNoSeen(_, _, _, _)
RegionScanNoSeen(anchors, root, regs, sn) ==
    IF anchors = <<>> THEN regs
    ELSE LET href == Head(anchors).href
             url == norm_cat(href)
             keep == /\ InScope(href)
                     /\ url # norm_cat(root)
                     /\ Parts(url) = Parts(norm_cat(root)) + 1
         IN RegionScanNoSeen(Tail(anchors), root,
                             IF keep THEN Append(regs, url) ELSE regs, sn)

discover_regions_no_seen(anchors, root) ==
    SortUrls(RegionScanNoSeen(CategoryAnchors(anchors), root, <<>>, {}))

\* the for loop of discover_regions over the anchors left
RECURSIVE RegionScan(_, _, _, _)
RegionScan(anchors, root, regs, sn) ==
    IF anchors = <<>> THEN regs
    ELSE LET href == Head(anchors).href
             url == norm_cat(href)
             keep == /\ InScope(href)
                     /\ url # norm_cat(root) /\ url \notin sn
                     /\ Parts(url) = Parts(norm_cat(root)) + 1
         IN RegionScan(Tail(anchors), root,
                       IF keep THEN Append(regs, url) ELSE regs,
                       IF keep THEN sn \cup {url} ELSE sn)

\* discover_regions(root), the root page carrying these anchors
discover_regions(anchors, root) ==
    SortUrls(RegionScan(CategoryAnchors(anchors), root, <<>>, {}))

\* the for loop of discover_subregions over the anchors left, accepting every
\* category deeper than the region
RECURSIVE SubregionScanAnyDepth(_, _, _, _)
SubregionScanAnyDepth(anchors, region_url, subs, sn) ==
    IF anchors = <<>> THEN subs
    ELSE LET href == Head(anchors).href
             url == norm_cat(href)
             keep == /\ InScope(href)
                     /\ Parts(url) >= Parts(norm_cat(region_url)) + 1
                     /\ url \notin sn
         IN SubregionScanAnyDepth(Tail(anchors), region_url,
                                  IF keep THEN Append(subs, url) ELSE subs,
                                  IF keep THEN sn \cup {url} ELSE sn)

discover_subregions_any_depth(anchors, region_url) ==
    SortUrls(SubregionScanAnyDepth(CategoryAnchors(anchors), region_url, <<>>, {}))

\* the for loop of discover_subregions over the anchors left
RECURSIVE SubregionScan(_, _, _, _)
SubregionScan(anchors, region_url, subs, sn) ==
    IF anchors = <<>> THEN subs
    ELSE LET href == Head(anchors).href
             url == norm_cat(href)
             keep == /\ InScope(href)
                     /\ Parts(url) = Parts(norm_cat(region_url)) + 1
                     /\ url \notin sn
         IN SubregionScan(Tail(anchors), region_url,
                          IF keep THEN Append(subs, url) ELSE subs,
                          IF keep THEN sn \cup {url} ELSE sn)

\* discover_subregions(region_url), the region page carrying these anchors
discover_subregions(anchors, region_url) ==
    SortUrls(SubregionScan(CategoryAnchors(anchors), region_url, <<>>, {}))

\* the canonical URLs of the category links of a page that stay under the root
LinkedCategories(anchors) ==
    {norm_cat(a.href) : a \in {b \in Range(CategoryAnchors(anchors)) : InScope(b.href)}}

-----------------------------------------------------------------------------
(* phase1_discover_inventory *)

\* max_pages=300, the default of discover_pagination_for_sell
DefaultMaxPages == 300

\* regions = discover_regions(root), the root page answered by r
RootPageAnswered(r) ==
    /\ pc = "discover_regions"
    /\ cat_fetches' = Append(cat_fetches, norm_cat(ROOT))
    /\ IF GetSoupRaises(r)
       THEN /\ pc' = "raised"
            /\ raised_in' = "discover_regions"
            /\ UNCHANGED <<regions, ri, graph>>
       ELSE /\ regions' = discover_regions(r.anchors, ROOT)
            /\ graph' = graph \cup LinkedCategories(r.anchors)
            /\ ri' = 1
            /\ pc' = "region_loop"
            /\ raised_in' = raised_in
    /\ UNCHANGED <<pag_calls, call, site, session, traffic, entry, listing, pagVars, subregions_by_region, listing_pages,
                   targets, ti, collectVars, phase2Vars>>

\* the root page answered by the site as it is at that moment
DiscoverRegions ==
    /\ pc = "discover_regions"
    /\ \E r \in CatResponses : RootPageAnswered(r)

\* targets that hold the region besides its subregions
TargetsWithRegion(subs, reg) == <<reg>> \o subs

\* targets = subs if subs else ([reg] if include_region_if_no_subs else []),
\* include_region_if_no_subs keeping its default True
TargetsFor(subs, reg) == IF subs # <<>> THEN subs ELSE <<reg>>

\* for reg in regions: subs = discover_subregions(reg); targets = ...,
\* the page of the region answered by r
RegionPageAnswered(r) ==
    /\ pc = "region_loop"
    /\ ri <= Len(regions)
    /\ LET reg == regions[ri]
           subs == discover_subregions(r.anchors, reg)
       IN /\ cat_fetches' = Append(cat_fetches, norm_cat(reg))
          /\ IF GetSoupRaises(r)
             THEN /\ pc' = "raised"
                  /\ raised_in' = "discover_subregions"
                  /\ UNCHANGED <<subregions_by_region, targets, ti, graph>>
             ELSE /\ subregions_by_region' = (reg :> subs) @@ subregions_by_region
                  /\ targets' = TargetsFor(subs, reg)
                  /\ graph' = graph \cup LinkedCategories(r.anchors)
                  /\ ti' = 1
                  /\ pc' = "target_loop"
                  /\ raised_in' = raised_in
    /\ UNCHANGED <<pag_calls, call, site, session, traffic, entry, listing, pagVars, regions, listing_pages, ri,
                   collectVars, phase2Vars>>

\* the page of the region answered by the site as it is at that moment
DiscoverSubregions ==
    /\ pc = "region_loop"
    /\ ri <= Len(regions)
    /\ \E r \in CatResponses : RegionPageAnswered(r)

\* for target in targets: pages = discover_pagination_for_sell(norm_cat(target) + "sell/")
CallPagination ==
    /\ pc = "target_loop"
    /\ ti <= Len(targets)
    /\ sell_url' = norm_cat(targets[ti]) \o <<"sell", "/">>
    /\ max_pages' = DefaultMaxPages
    /\ pages' = <<>>
    /\ page' = 1
    /\ pag_requests' = <<>>
    /\ pag_calls' = Append(pag_calls, norm_cat(targets[ti]) \o <<"sell", "/">>)
    /\ pc' = "paginate"
    /\ UNCHANGED <<call, site, session, traffic, entry, raised_in, listing, phase1Vars, collectVars, phase2Vars>>

\* the response lets the while loop of discover_pagination_for_sell go on
Continues(r, n, sell) ==
    LET got == listing_rows(r, PageUrl(sell, n), sell)
    IN ~r.exc /\ ~Redirected(n, got.final, PageUrl(sell, n)) /\ got.rows # <<>>

\* the largest number of listing pages of a category of the crawled site
MaxCategoryPages == 2

\* the request of the current page, answered by a site that has at most
\* MaxCategoryPages listing pages in a category
PagStepSite ==
    \E r \in PagResponses :
        /\ page > MaxCategoryPages => ~Continues(r, page, sell_url)
        /\ PagIteration(r)

\* back in phase1_discover_inventory: for p in pages: listing_pages.append((target, p))
PagReturnPhase1 ==
    /\ pc = "pag_return"
    /\ entry # "discover_pagination_for_sell"
    /\ listing_pages' = listing_pages \o [n \in 1..Len(pages) |-> <<targets[ti], pages[n]>>]
    /\ ti' = ti + 1
    /\ pc' = "target_loop"
    /\ UNCHANGED <<pag_calls, call, site, session, traffic, entry, raised_in, listing, pagVars, regions, subregions_by_region,
                   ri, targets, cat_fetches, graph, collectVars, phase2Vars>>

\* the targets of the region are exhausted: the next region
NextRegion ==
    /\ pc = "target_loop"
    /\ ti > Len(targets)
    /\ ri' = ri + 1
    /\ pc' = "region_loop"
    /\ UNCHANGED <<pag_calls, call, site, session, traffic, entry, raised_in, listing, pagVars, regions, subregions_by_region,
                   listing_pages, targets, ti, cat_fetches, graph, collectVars, phase2Vars>>

\* return regions, subregions_by_region, listing_pages; run_two_phase goes on
\* to phase2_scrape_inventory(listing_pages)
Phase1Return ==
    /\ pc = "region_loop"
    /\ ri > Len(regions)
    /\ IF entry = "phase1_discover_inventory"
       THEN pc' = "done" /\ UNCHANGED idx
       ELSE pc' = "collect" /\ idx' = 1
    /\ UNCHANGED <<pag_calls, call, site, session, traffic, entry, raised_in, listing, pagVars, phase1Vars, seen, all_links, phase2Vars>>

-----------------------------------------------------------------------------
(* collect_ad_links_from_pages *)

\* rows whose shape row_to_link refuses: fewer than three cells, no anchor
ShortRow(k) == Row(<<"t", "r", "_", ToString(k)>>, 2, AdHref(k))

BareRow(k) == Row(<<"t", "r", "_", ToString(k)>>, 3, NoHref)

NoLink == <<>>

\* row_to_link(row): None (NoLink) for a malformed row, else BASE + href
row_to_link(row) ==
    IF row.tds < 3 THEN NoLink
    ELSE IF row.href = NoHref THEN NoLink
    ELSE BASE \o row.href

\* listing_rows_from_html(html)
listing_rows_from_html(rows) == SelectSeq(rows, Qualifies)

\* the for loop over the rows of one page without the membership test
RECURSIVE AddLinksNoSeen(_, _, _)
AddLinksNoSeen(rows, sn, links) ==
    IF rows = <<>> THEN [seen |-> sn, all_links |-> links]
    ELSE LET href == row_to_link(Head(rows))
         IN IF href # NoLink
            THEN AddLinksNoSeen(Tail(rows), sn \cup {href}, Append(links, href))
            ELSE AddLinksNoSeen(Tail(rows), sn, links)

\* the for loop over the rows of one page: a link not seen before is appended
RECURSIVE AddLinks(_, _, _)
AddLinks(rows, sn, links) ==
    IF rows = <<>> THEN [seen |-> sn, all_links |-> links]
    ELSE LET href == row_to_link(Head(rows))
         IN IF href # NoLink /\ href \notin sn
            THEN AddLinks(Tail(rows), sn \cup {href}, Append(links, href))
            ELSE AddLinks(Tail(rows), sn, links)

\* the longest row list of a listing page
MaxRows == 2

\* the ads of the site
MaxAds == 2

CollectRows == {AdRow(k) : k \in 1..MaxAds} \cup {ShortRow(MaxAds + 1), BareRow(MaxAds + 2), HeadRow}

\* the responses to the GET of a listing page in collect_ad_links_from_pages
CollectResponses ==
    {Resp(200, rows, "same") : rows \in SeqsUpTo(CollectRows, MaxRows)}
        \cup {Resp(404, <<AdRow(1)>>, "same"), ExcResp}

\* one iteration of the loop over listing_pages, the request answered by r
CollectPage(r) ==
    /\ pc = "collect"
    /\ idx <= Len(listing_pages)
    /\ IF r.exc
       THEN /\ pc' = "raised"
            /\ raised_in' = "collect_ad_links_from_pages"
            /\ UNCHANGED collectVars
       ELSE /\ UNCHANGED <<pc, raised_in>>
            /\ idx' = idx + 1
            /\ IF r.status # 200
               THEN UNCHANGED <<seen, all_links>>
               ELSE LET got == AddLinks(listing_rows_from_html(r.rows), seen, all_links)
                    IN seen' = got.seen /\ all_links' = got.all_links
    /\ UNCHANGED <<pag_calls, call, site, session, entry, listing, pagVars, phase1Vars, phase2Vars>>

\* the listing page answered by the site as it is at that moment
CollectStepSite == \E r \in CollectResponses : CollectPage(r) /\ UNCHANGED traffic

\* the links of the page as a reader of the page sees them: the anchors in the
\* second cell of its listing rows that have at least three cells
LinksOnPage(r) ==
    LET good == SelectSeq(r.rows, LAMBDA row : Qualifies(row) /\ row.tds >= 3 /\ row.href # NoHref)
    IN IF r.exc \/ r.status # 200 THEN <<>> ELSE [i \in 1..Len(good) |-> BASE \o good[i].href]

\* the same step, the links on the answered page kept for inspection
CollectStepLogged ==
    \E r \in CollectResponses :
        /\ CollectPage(r)
        /\ last_links' = LinksOnPage(r)
        /\ found' = found \cup Range(LinksOnPage(r))

\* return all_links; phase2_scrape_inventory goes on to parse the ads
CollectReturn ==
    /\ pc = "collect"
    /\ idx > Len(listing_pages)
    /\ ad_links' = all_links
    /\ IF entry = "collect_ad_links_from_pages"
       THEN pc' = "done" /\ UNCHANGED ai
       ELSE pc' = "parse" /\ ai' = 1
    /\ last_links' = <<>>
    /\ UNCHANGED <<pag_calls, call, site, session, found, entry, raised_in, listing, pagVars, phase1Vars, collectVars,
                   details, ad_log, df>>

-----------------------------------------------------------------------------
(* Texts.  A text is the sequence of its characters; the texts of the pages
   use the letters of the alphabet, digits, the space, and punctuation *)

\* \d
Digit == {"0", "1", "2", "3", "4", "5", "6", "7", "8", "9"}

\* \s, on the characters the texts use
Whitespace == {" "}

\* the literal lit stands in s at position k
LiteralAt(s, k, lit) ==
    k + Len(lit) - 1 <= Len(s) /\ SubSeq(s, k, k + Len(lit) - 1) = lit

\* the greatest element of a set of numbers
Greatest(S) == CHOOSE x \in S : \A y \in S : y <= x

\* the letters of the alphabet
Letter ==
    {"a", "b", "c", "d", "e", "f", "g", "h", "i", "j", "k", "l", "m", "n", "o", "p", "q", "r", "s", "t", "u", "v", "w", "x", "y", "z",
     "A", "B", "C", "D", "E", "F", "G", "H", "I", "J", "K", "L", "M", "N", "O", "P", "Q", "R", "S", "T", "U", "V", "W", "X", "Y", "Z"}

\* \w of a str pattern, which is Unicode-aware: of the characters the texts
\* use, the letters, the digits, "_" and the superscript "²" ("€" and the
\* punctuation are not word characters)
WordChar == Letter \cup Digit \cup {"_", "²"}

\* str.strip()
strip(s) ==
    LET keep == {i \in 1..Len(s) : s[i] \notin Whitespace}
    IN IF keep = {} THEN <<>> ELSE SubSeq(s, Least(keep), Greatest(keep))

\* n digits stand in s from position i
DigitsAt(s, i, n) == i + n - 1 <= Len(s) /\ \A k \in i..(i + n - 1) : s[k] \in Digit

-----------------------------------------------------------------------------
(* parse_ad_details and phase2_scrape_inventory *)

\* the element ids parse_ad_details reads, with the column each one fills
FieldIds ==
    <<<<"Pilseta", "tdo_20">>, <<"Iela", "tdo_11">>, <<"Ciems", "tdo_368">>,
      <<"Platiba", "tdo_3">>, <<"Cena", "tdo_8">>, <<"Zemes Tips", "tdo_228">>,
      <<"Zemes Numurs", "tdo_1631">>>>

\* An ad page: els maps the ids of its elements to their text; texts holds
\* the elements with text in them, in document order, each as the sequence of
\* the strings under it.
AdPage(els, texts) == [els |-> els, texts |-> texts]

\* the sentinel "NA", as the sequence of its characters
NA == <<"N", "A">>

\* the texts of the elements of a complete ad, character by character
FullAdText(id) ==
    CASE id = "tdo_20"   -> <<"R", "i", "g", "a">>
      [] id = "tdo_11"   -> <<"L", "i", "e", "l", "a">>
      [] id = "tdo_368"  -> <<"B", "e", "r", "g", "i">>
      [] id = "tdo_3"    -> <<"2", "5", "0", "0", " ", "m", "²">>
      [] id = "tdo_8"    -> <<"1", "5", " ", "0", "0", "0", " ", "€", " ", "(",
                              "1", "5", "0", ",", "0", "0", " ", "€", "/", "m", "²", ")">>
      [] id = "tdo_228"  -> <<"L", "I", "Z">>
      [] id = "tdo_1631" -> <<"8", "0", "7", "2">>

FullAd ==
    AdPage([id \in {FieldIds[i][2] : i \in 1..Len(FieldIds)} |-> FullAdText(id)],
           << << <<"D", "a", "t", "u", "m", "s", ":", " ",
                   "0", "1", ".", "0", "2", ".", "2", "0", "2", "4", ".">> >> >>)

BareAd == AdPage(<<>>, <<>>)

\* the ad page without the elements of the given ids
Lacking(adpage, ids) ==
    AdPage([id \in DOMAIN adpage.els \ ids |-> adpage.els[id]], adpage.texts)

\* an extract_text_by_id whose default is the empty text
extract_text_by_id_empty_default(adpage, el_id) ==
    IF el_id \in DOMAIN adpage.els THEN adpage.els[el_id] ELSE <<>>

\* extract_text_by_id(soup, el_id)
extract_text_by_id(adpage, el_id) ==
    IF el_id \in DOMAIN adpage.els THEN adpage.els[el_id] ELSE NA

\* the greatest number of strings under an element of the page
MaxStringsOfPage(adpage) ==
    IF adpage.texts = <<>> THEN 0
    ELSE Greatest({Len(adpage.texts[e]) : e \in DOMAIN adpage.texts})

\* re.compile(r"\bDatums:").search(string)
MatchesLabel(string) ==
    \E i \in 1..Len(string) :
        /\ LiteralAt(string, i, <<"D", "a", "t", "u", "m", "s", ":">>)
        /\ i = 1 \/ string[i - 1] \notin WordChar

\* tag.get_text(" ", strip=True): the strings under the tag, stripped, the
\* empty ones left out, joined by a space
RECURSIVE get_text(_)
get_text(strings) ==
    IF strings = <<>> THEN <<>>
    ELSE LET first == strip(Head(strings))
             rest == get_text(Tail(strings))
         IN IF first = <<>> THEN rest
            ELSE IF rest = <<>> THEN first
            ELSE first \o <<" ">> \o rest

\* \d{2}\.\d{2}\.\d{4}\. matches in s at i
DottedDateAt(s, i) ==
    /\ DigitsAt(s, i, 2) /\ LiteralAt(s, i + 2, <<".">>)
    /\ DigitsAt(s, i + 3, 2) /\ LiteralAt(s, i + 5, <<".">>)
    /\ DigitsAt(s, i + 6, 4) /\ LiteralAt(s, i + 10, <<".">>)

\* \d{4}-\d{2}-\d{2} matches in s at i
IsoDateAt(s, i) ==
    /\ DigitsAt(s, i, 4) /\ LiteralAt(s, i + 4, <<"-">>)
    /\ DigitsAt(s, i + 5, 2) /\ LiteralAt(s, i + 7, <<"-">>)
    /\ DigitsAt(s, i + 8, 2)

\* an extract_datums that looks for the date in the matching string alone
extract_datums_in_node(adpage) ==
    LET nodes == {n \in {<<e, k>> : e \in DOMAIN adpage.texts, k \in 1..MaxStringsOfPage(adpage)} :
                     n[2] <= Len(adpage.texts[n[1]]) /\ MatchesLabel(adpage.texts[n[1]][n[2]])}
    IN IF nodes = {} THEN NA
       ELSE LET e == Least({n[1] : n \in nodes})
                k == Least({n[2] : n \in {x \in nodes : x[1] = e}})
                parent_text == strip(adpage.texts[e][k])
                starts == {i \in 1..Len(parent_text) :
                              DottedDateAt(parent_text, i) \/ IsoDateAt(parent_text, i)}
            IN IF starts = {} THEN parent_text
               ELSE LET i == Least(starts)
                    IN SubSeq(parent_text, i, i + (IF DottedDateAt(parent_text, i) THEN 10 ELSE 9))

\* extract_datums(soup): nodes are the strings that match the label, node the
\* first of them in document order, parent_text the text of its parent (a
\* string found in the soup has one), and the result the leftmost match of the
\* date pattern in parent_text, or parent_text when there is none
extract_datums(adpage) ==
    LET nodes == {n \in {<<e, k>> : e \in DOMAIN adpage.texts, k \in 1..MaxStringsOfPage(adpage)} :
                     n[2] <= Len(adpage.texts[n[1]]) /\ MatchesLabel(adpage.texts[n[1]][n[2]])}
    IN IF nodes = {} THEN NA
       ELSE LET e == Least({n[1] : n \in nodes})
                parent_text == get_text(adpage.texts[e])
                starts == {i \in 1..Len(parent_text) :
                              DottedDateAt(parent_text, i) \/ IsoDateAt(parent_text, i)}
            IN IF starts = {} THEN parent_text
               ELSE LET i == Least(starts)
                    IN SubSeq(parent_text, i, i + (IF DottedDateAt(parent_text, i) THEN 10 ELSE 9))

\* A response to the GET of an ad page: a transport failure, or a status, the
\* page and the URL the request resolved to.
AdResp(status, adpage, final) == [exc |-> FALSE, status |-> status, adpage |-> adpage, final |-> final]

AdExc == [exc |-> TRUE, status |-> 0, adpage |-> BareAd, final |-> <<>>]

\* where an ad that moved redirects to
MovedTo == ROOT

AdResponses(url) ==
    {AdResp(200, FullAd, url), AdResp(200, BareAd, url), AdResp(200, FullAd, MovedTo),
     AdResp(404, BareAd, url), AdExc}

\* parse_ad_details raises: the GET failed, or raise_for_status did
ParseRaises(r) == r.exc \/ RaisesForStatus(r.status)

\* a parse_ad_details that records the URL the request resolved to
parse_ad_details_final_url(url, r) ==
    [c \in {"Link", "Datums"} \cup {FieldIds[i][1] : i \in 1..Len(FieldIds)} |->
        IF c = "Link" THEN r.final
        ELSE IF c = "Datums" THEN extract_datums(r.adpage)
        ELSE extract_text_by_id(r.adpage,
                 FieldIds[CHOOSE i \in 1..Len(FieldIds) : FieldIds[i][1] = c][2])]

\* the record parse_ad_details(url) returns when it does not raise
parse_ad_details(url, r) ==
    [c \in {"Link", "Datums"} \cup {FieldIds[i][1] : i \in 1..Len(FieldIds)} |->
        IF c = "Link" THEN url
        ELSE IF c = "Datums" THEN extract_datums(r.adpage)
        ELSE extract_text_by_id(r.adpage,
                 FieldIds[CHOOSE i \in 1..Len(FieldIds) : FieldIds[i][1] = c][2])]

\* one iteration of the loop over ad_links with no try/except around the call
ParseAdUncaught(r) ==
    /\ pc = "parse"
    /\ ai <= Len(ad_links)
    /\ ad_log' = Append(ad_log, <<ad_links[ai], ~ParseRaises(r)>>)
    /\ IF ParseRaises(r)
       THEN /\ pc' = "raised"
            /\ raised_in' = "parse_ad_details"
            /\ UNCHANGED <<details, ai>>
       ELSE /\ details' = Append(details, parse_ad_details(ad_links[ai], r))
            /\ ai' = ai + 1
            /\ UNCHANGED <<pc, raised_in>>
    /\ UNCHANGED <<pag_calls, call, site, session, traffic, entry, listing, pagVars, phase1Vars, collectVars, ad_links, df>>

\* one iteration of the loop over ad_links: try parse_ad_details(link), and on
\* any exception print a warning and go on
ParseAd(r) ==
    /\ pc = "parse"
    /\ ai <= Len(ad_links)
    /\ ad_log' = Append(ad_log, <<ad_links[ai], ~ParseRaises(r)>>)
    /\ details' = IF ParseRaises(r) THEN details
                  ELSE Append(details, parse_ad_details(ad_links[ai], r))
    /\ ai' = ai + 1
    /\ UNCHANGED <<pag_calls, call, site, session, traffic, entry, pc, raised_in, listing, pagVars, phase1Vars, collectVars, ad_links, df>>

\* the ad page answered by the site
ParseStepSite ==
    /\ pc = "parse"
    /\ ai <= Len(ad_links)
    /\ \E r \in AdResponses(ad_links[ai]) : ParseAd(r)

-----------------------------------------------------------------------------
(* normalize_numeric_columns *)

\* a cell of a string column: a text, or the null of pandas
Str(t) == [nan |-> FALSE, str |-> t]

NaNStr == [nan |-> TRUE, str |-> <<>>]

\* a cell of a numeric column: the number m / 10^e with no trailing zero in its
\* fraction, or NaN
RECURSIVE Float(_, _)
Float(m, e) ==
    IF e > 0 /\ m % 10 = 0 THEN Float(m \div 10, e - 1)
    ELSE [nan |-> FALSE, m |-> m, e |-> e]

NaN == [nan |-> TRUE, m |-> 0, e |-> 0]

\* where the longest run of characters of cls that starts at i ends: the
\* position after its last character, i itself when s[i] is not of cls
RECURSIVE RunEnd(_, _, _)
RunEnd(s, i, cls) ==
    IF i <= Len(s) /\ s[i] \in cls THEN RunEnd(s, i + 1, cls) ELSE i

\* the ends of group 1 over which "(cls+)\s*lit" matches with the group
\* starting at i: the group takes one character or more of cls, \s* takes
\* whitespace, and lit follows
GroupEnds(s, i, cls, lit) ==
    {j \in (i + 1)..RunEnd(s, i, cls) :
        \E k \in j..RunEnd(s, j, Whitespace) : LiteralAt(s, k, lit)}

\* df["Cena"].str.extract(r"([\d\s]+)\s*€", expand=False): the leftmost
\* match, its group as long as it can be
extract_cena_eur(s) ==
    LET starts == {i \in 1..Len(s) : GroupEnds(s, i, Digit \cup Whitespace, <<"€">>) # {}}
    IN IF starts = {} THEN NaNStr
       ELSE LET i == Least(starts)
                j == Greatest(GroupEnds(s, i, Digit \cup Whitespace, <<"€">>))
            IN Str(SubSeq(s, i, j - 1))

\* df["Cena"].str.extract(r"\(([\d\.,\s]+)\s*€/m²\)", expand=False)
extract_cena_m2(s) ==
    LET cls == Digit \cup {".", ","} \cup Whitespace
        lit == <<"€", "/", "m", "²", ")">>
        starts == {i \in 1..Len(s) : s[i] = "(" /\ GroupEnds(s, i + 1, cls, lit) # {}}
    IN IF starts = {} THEN NaNStr
       ELSE LET i == Least(starts)
                j == Greatest(GroupEnds(s, i + 1, cls, lit))
            IN Str(SubSeq(s, i + 1, j - 1))

\* an extraction by r"([\d\.,]+)(.*)", with no \s* between the groups
extract_platiba_no_whitespace(s) ==
    LET cls == Digit \cup {".", ","}
        starts == {i \in 1..Len(s) : s[i] \in cls}
    IN IF starts = {} THEN <<NaNStr, NaNStr>>
       ELSE LET i == Least(starts)
                j == RunEnd(s, i, cls)
            IN <<Str(SubSeq(s, i, j - 1)), Str(SubSeq(s, j, Len(s)))>>

\* df["Platiba"].str.extract(r"([\d\.,]+)\s*(.*)"): the two groups of the
\* leftmost match; the first takes the whole run, \s* the whitespace after
\* it, and the second the rest of the text
extract_platiba(s) ==
    LET cls == Digit \cup {".", ","}
        starts == {i \in 1..Len(s) : s[i] \in cls}
    IN IF starts = {} THEN <<NaNStr, NaNStr>>
       ELSE LET i == Least(starts)
                j == RunEnd(s, i, cls)
                k == RunEnd(s, j, Whitespace)
            IN <<Str(SubSeq(s, i, j - 1)), Str(SubSeq(s, k, Len(s)))>>

\* Series.str.replace(old, new, regex=False) of one cell, old one character
\* and new a text; a null stays null
RECURSIVE ReplaceText(_, _, _)
ReplaceText(t, old, new) ==
    IF t = <<>> THEN <<>>
    ELSE (IF Head(t) = old THEN new ELSE <<Head(t)>>) \o ReplaceText(Tail(t), old, new)

str_replace(cell, old, new) ==
    IF cell.nan THEN cell ELSE Str(ReplaceText(cell.str, old, new))

\* the number the digits of t spell
RECURSIVE DigitsValue(_)
DigitsValue(t) ==
    IF t = <<>> THEN 0
    ELSE 10 * DigitsValue(SubSeq(t, 1, Len(t) - 1))
           + (CHOOSE d \in 0..9 : ToString(d) = Last(t))

\* pd.to_numeric(errors="coerce") of one cell: a null, or a text that is not
\* digits with at most one decimal point and at least one digit, gives NaN
to_numeric(cell) ==
    IF cell.nan THEN NaN
    ELSE LET t == cell.str
             dots == {i \in 1..Len(t) : t[i] = "."}
         IN IF \/ \E i \in 1..Len(t) : t[i] \notin Digit \cup {"."}
               \/ Cardinality(dots) > 1
               \/ Len(t) = Cardinality(dots)
            THEN NaN
            ELSE IF dots = {} THEN Float(DigitsValue(t), 0)
            ELSE LET d == CHOOSE i \in dots : TRUE
                 IN Float(DigitsValue(SubSeq(t, 1, d - 1) \o SubSeq(t, d + 1, Len(t))),
                          Len(t) - d)

\* Series.fillna("") of one cell
fillna_empty(cell) == IF cell.nan THEN <<>> ELSE cell.str

\* the columns normalize_numeric_columns adds
NumericColumns == {"Cena EUR", "Cena m2", "Platiba Daudzums", "Platiba Mervieniba"}

\* the assignments df[col] = ... of normalize_numeric_columns on one row: every
\* step of it works cell by cell, on the table it is given.  Cena and Platiba
\* are texts in every record, so fillna("NA").astype(str) changes nothing
AssignColumns(rec) ==
    LET plat_split == extract_platiba(rec["Platiba"])
    IN [c \in DOMAIN rec \cup NumericColumns |->
          CASE c = "Cena EUR" ->
                 to_numeric(str_replace(extract_cena_eur(rec["Cena"]), " ", <<>>))
            [] c = "Cena m2" ->
                 to_numeric(str_replace(str_replace(extract_cena_m2(rec["Cena"]), " ", <<>>),
                                        ",", <<".">>))
            [] c = "Platiba Daudzums" ->
                 to_numeric(str_replace(str_replace(plat_split[1], " ", <<>>), ",", <<".">>))
            [] c = "Platiba Mervieniba" -> fillna_empty(plat_split[2])
            [] OTHER -> rec[c]]

\* the table the caller handed over, as normalize_numeric_columns leaves it:
\* the columns are assigned in place
AssignedInPlace(recs) == [i \in 1..Len(recs) |-> AssignColumns(recs[i])]

\* df.drop(columns=["Platiba", "Cena"], errors="ignore") on one row: a new row
NormalizeRow(rec) ==
    LET assigned == AssignColumns(rec)
    IN [c \in DOMAIN assigned \ {"Platiba", "Cena"} |-> assigned[c]]

\* normalize_numeric_columns(df): what it returns
normalize_numeric_columns(recs) == [i \in 1..Len(recs) |-> NormalizeRow(recs[i])]

-----------------------------------------------------------------------------
(* the end of phase2_scrape_inventory *)

\* the days a run may fall on
Dates == {"2024-02-01", "2024-02-02"}

\* df.drop_duplicates(subset=["Datu iev."]): the first record of each day is kept
RECURSIVE drop_duplicates_by_day(_)
drop_duplicates_by_day(recs) ==
    IF recs = <<>> THEN <<>>
    ELSE LET init == SubSeq(recs, 1, Len(recs) - 1)
             last == recs[Len(recs)]
         IN IF \E i \in 1..Len(init) : init[i]["Datu iev."] = last["Datu iev."]
            THEN drop_duplicates_by_day(init)
            ELSE Append(drop_duplicates_by_day(init), last)

\* df.drop_duplicates(subset=["Link"]): the first record of each Link is kept
RECURSIVE drop_duplicates(_)
drop_duplicates(recs) ==
    IF recs = <<>> THEN <<>>
    ELSE LET init == SubSeq(recs, 1, Len(recs) - 1)
             last == recs[Len(recs)]
         IN IF \E i \in 1..Len(init) : init[i]["Link"] = last["Link"]
            THEN drop_duplicates(init)
            ELSE Append(drop_duplicates(init), last)

\* df["Datu iev."] = datetime.today().strftime("%Y-%m-%d")
Stamp(recs, today) == [i \in 1..Len(recs) |-> ("Datu iev." :> today) @@ recs[i]]

\* df = pd.DataFrame(details); the empty table is returned as it is, else the
\* records are stamped with the day of the run, their price and area columns
\* are normalized, and the records are deduplicated by Link
Phase2Return ==
    /\ pc = "parse"
    /\ ai > Len(ad_links)
    /\ \E today \in Dates :
          df' = IF details = <<>> THEN <<>>
                ELSE drop_duplicates(normalize_numeric_columns(Stamp(details, today)))
    /\ pc' = "done"
    /\ UNCHANGED <<pag_calls, call, site, session, traffic, entry, raised_in, listing, pagVars, phase1Vars, collectVars,
                   ad_links, ai, details, ad_log>>

-----------------------------------------------------------------------------
(* run_two_phase *)

Init ==
    /\ entry = "run_two_phase"
    /\ pc = "discover_regions"
    /\ raised_in = ""
    /\ listing = <<>>
    /\ sell_url = <<>>
    /\ max_pages = DefaultMaxPages
    /\ pages = <<>>
    /\ page = 1
    /\ pag_requests = <<>>
    /\ regions = <<>>
    /\ subregions_by_region = <<>>
    /\ listing_pages = <<>>
    /\ ri = 0
    /\ targets = <<>>
    /\ ti = 0
    /\ cat_fetches = <<>>
    /\ graph = {norm_cat(ROOT)}
    /\ IdleCollect
    /\ IdlePhase2
    /\ IdleSession
    /\ pag_calls = <<>>
    /\ IdleCall
    /\ IdleSite

Next ==
    \/ DiscoverRegions
    \/ DiscoverSubregions
    \/ CallPagination
    \/ PagStepSite
    \/ PagReturnPhase1
    \/ NextRegion
    \/ Phase1Return
    \/ CollectStepSite
    \/ CollectReturn
    \/ ParseStepSite
    \/ Phase2Return

Spec == Init /\ [][Next]_vars /\ WF_vars(Next)

-----------------------------------------------------------------------------
(* phase2_scrape_inventory called by itself *)

\* the longest listing_pages argument
MaxListingArg == 2

RigaUrl == norm_cat(HRiga)

JurmalaUrl == norm_cat(HJurmala)

\* the <<owner, page url>> pairs the argument is made of
ListingPairs ==
    {<<RigaUrl, PageUrl(RigaUrl \o <<"sell", "/">>, 2)>>,
     <<JurmalaUrl, PageUrl(JurmalaUrl \o <<"sell", "/">>, 1)>>}

InitPhase2 ==
    /\ entry = "phase2_scrape_inventory"
    /\ pc = "collect"
    /\ raised_in = ""
    /\ listing = <<>>
    /\ sell_url = <<>>
    /\ max_pages = DefaultMaxPages
    /\ pages = <<>>
    /\ page = 1
    /\ pag_requests = <<>>
    /\ regions = <<>>
    /\ subregions_by_region = <<>>
    /\ listing_pages \in SeqsUpTo(ListingPairs, MaxListingArg)
    /\ ri = 0
    /\ targets = <<>>
    /\ ti = 0
    /\ cat_fetches = <<>>
    /\ graph = {}
    /\ seen = {}
    /\ all_links = <<>>
    /\ idx = 1
    /\ last_links = <<>>
    /\ found = {}
    /\ IdlePhase2
    /\ IdleSession
    /\ pag_calls = <<>>
    /\ IdleCall
    /\ IdleSite

NextPhase2 ==
    \/ CollectStepLogged
    \/ CollectReturn
    \/ ParseStepSite
    \/ Phase2Return

SpecPhase2 == InitPhase2 /\ [][NextPhase2]_vars /\ WF_vars(NextPhase2)

-----------------------------------------------------------------------------
(* phase1_discover_inventory called by itself *)

InitPhase1 ==
    /\ entry = "phase1_discover_inventory"
    /\ pc = "discover_regions"
    /\ raised_in = ""
    /\ listing = <<>>
    /\ sell_url = <<>>
    /\ max_pages = DefaultMaxPages
    /\ pages = <<>>
    /\ page = 1
    /\ pag_requests = <<>>
    /\ regions = <<>>
    /\ subregions_by_region = <<>>
    /\ listing_pages = <<>>
    /\ ri = 0
    /\ targets = <<>>
    /\ ti = 0
    /\ cat_fetches = <<>>
    /\ graph = {norm_cat(ROOT)}
    /\ IdleCollect
    /\ IdlePhase2
    /\ IdleSession
    /\ pag_calls = <<>>
    /\ IdleCall
    /\ IdleSite

NextPhase1 ==
    \/ DiscoverRegions
    \/ DiscoverSubregions
    \/ CallPagination
    \/ PagStepSite
    \/ PagReturnPhase1
    \/ NextRegion
    \/ Phase1Return

SpecPhase1 == InitPhase1 /\ [][NextPhase1]_vars /\ WF_vars(NextPhase1)

-----------------------------------------------------------------------------
(* sess().get called by itself: one GET against a server that answers each
   attempt as it likes *)

InitHttp ==
    /\ entry = "get"
    /\ pc = "urlopen"
    /\ raised_in = ""
    /\ listing = <<>>
    /\ sell_url = <<>>
    /\ max_pages = DefaultMaxPages
    /\ pages = <<>>
    /\ page = 1
    /\ pag_requests = <<>>
    /\ IdlePhase1
    /\ IdleCollect
    /\ IdlePhase2
    /\ IdleSession
    /\ pag_calls = <<>>
    /\ IdleCall
    /\ IdleSite

NextHttp == UrlopenResponse \/ UrlopenError

SpecHttp == InitHttp /\ [][NextHttp]_vars /\ WF_vars(NextHttp)

-----------------------------------------------------------------------------
(* norm_cat called by itself, on the spellings of a category URL *)

\* the greatest page number of a spelled listing URL
MaxPageNo == 3

\* the category paths: the root, a region, a subregion, and categories whose
\* names begin or end like the listing segment
CategoryPaths ==
    {Rstrip(RootPath),
     RootPath \o <<"riga">>,
     RootPath \o <<"riga", "/", "centre">>,
     RootPath \o <<"sellers">>,
     RootPath \o <<"riga", "/", "resell">>}

\* the tails a URL of category path c is spelled with: a trailing slash, none,
\* the /sell/ listing, one of its pages, and tails with repeated slashes or
\* without the last slash
Tails ==
    [slash |-> {<<"/">>},
     bare |-> {<<>>},
     sell |-> {<<"/", "sell", "/">>},
     page |-> {<<"/", "sell", "/", "page" \o ToString(n) \o ".html">> : n \in 2..MaxPageNo},
     slashes |-> {<<"/", "/">>},
     sell_bare |-> {<<"/", "sell">>},
     sell_slashes |-> {<<"/", "sell", "/", "/">>},
     slashes_sell |-> {<<"/", "/", "sell", "/">>}]

\* the spellings: site-relative or absolute, with one of the tails
Spellings ==
    {[c |-> c, kind |-> k, absolute |-> a, url |-> (IF a THEN BASE ELSE <<>>) \o c \o t] :
        c \in CategoryPaths, k \in DOMAIN Tails, a \in BOOLEAN, t \in UNION {Tails[x] : x \in DOMAIN Tails}}

\* norm_cat(url), then norm_cat of what it returned
NormCatCall ==
    /\ entry = "norm_cat"
    /\ pc = "call"
    /\ ret' = Append(ret, norm_cat(IF ret = <<>> THEN arg.url ELSE Last(ret)))
    /\ pc' = IF Len(ret) = 1 THEN "done" ELSE "call"
    /\ UNCHANGED <<pag_calls, arg, site, session, traffic, entry, raised_in, listing, pagVars, phase1Vars,
                   collectVars, phase2Vars>>

InitNorm ==
    /\ entry = "norm_cat"
    /\ pc = "call"
    /\ raised_in = ""
    /\ listing = <<>>
    /\ sell_url = <<>>
    /\ max_pages = DefaultMaxPages
    /\ pages = <<>>
    /\ page = 1
    /\ pag_requests = <<>>
    /\ IdlePhase1
    /\ IdleCollect
    /\ IdlePhase2
    /\ IdleSession
    /\ pag_calls = <<>>
    /\ IdleSite
    /\ arg \in {x \in Spellings : x.url \in (LET pre == (IF x.absolute THEN BASE ELSE <<>>) \o x.c
                                            IN {pre \o t : t \in Tails[x.kind]})}
    /\ ret = <<>>

NextNorm == NormCatCall

SpecNorm == InitNorm /\ [][NextNorm]_vars /\ WF_vars(NextNorm)

-----------------------------------------------------------------------------
(* normalize_numeric_columns called by itself, on a table of one record whose
   price and area texts are spelled from the numbers they stand for *)

\* the decimal digits of n
RECURSIVE Digits(_)
Digits(n) == IF n < 10 THEN <<ToString(n)>> ELSE Digits(n \div 10) \o <<ToString(n % 10)>>

\* n with its thousands separated by spaces, as in "15 000"
RECURSIVE SpacedThousands(_)
SpacedThousands(n) ==
    IF n < 1000 THEN Digits(n)
    ELSE SpacedThousands(n \div 1000)
           \o <<" ", ToString((n % 1000) \div 100), ToString((n % 100) \div 10), ToString(n % 10)>>

\* the whole part of a quantity, with or without the spaces
WholePart(n, spaced) == IF spaced THEN SpacedThousands(n) ELSE Digits(n)

\* m / 10^e with a comma before its e decimals, as in "150,00" and "1234,5"
CommaDecimal(m, e, spaced) ==
    IF e = 0 THEN WholePart(m, spaced)
    ELSE LET d == IF e = 1 THEN 10 ELSE 100
             frac == m % d
         IN WholePart(m \div d, spaced) \o <<",">>
              \o (IF e = 1 THEN <<ToString(frac)>> ELSE <<ToString(frac \div 10), ToString(frac % 10)>>)

\* the prices in EUR, and the prices per m² in cents, of the ads
EurPrices == {0, 7, 999, 15000, 1234567}

CentsPerM2 == {5, 99, 15000, 15050}

\* the areas of the ads: the quantity m / 10^e, and the unit
Areas ==
    {[m |-> 2500, e |-> 0], [m |-> 75, e |-> 0], [m |-> 12345, e |-> 1], [m |-> 5, e |-> 1]}

Units == {<<"m", "²">>, <<"h", "a">>}

\* the text of the price element: the price, the price per m² in
\* parentheses, both, or neither (the sentinel)
PriceText(eur, m2) ==
    IF eur = <<>> /\ m2 = <<>> THEN NA
    ELSE (IF eur = <<>> THEN <<>> ELSE SpacedThousands(eur[1]) \o <<" ", "€">>)
         \o (IF eur # <<>> /\ m2 # <<>> THEN <<" ">> ELSE <<>>)
         \o (IF m2 = <<>> THEN <<>>
             ELSE <<"(">> \o CommaDecimal(m2[1], 2, FALSE) \o <<" ", "€", "/", "m", "²", ")">>)

\* the text of the area element: the quantity and the unit, or the sentinel
AreaText(area) ==
    IF area = <<>> THEN NA
    ELSE CommaDecimal(area[1].m, area[1].e, area[1].spaced) \o <<" ">> \o area[1].unit

\* the record of the ad: what the texts stand for, and the row of the table
NumericInputs ==
    {[eur |-> eur, m2 |-> m2, area |-> area,
      df |-> <<[Link |-> BASE \o AdHref(1), Cena |-> PriceText(eur, m2), Platiba |-> AreaText(area)]>>] :
        eur \in {<<>>} \cup {<<n>> : n \in EurPrices},
        m2 \in {<<>>} \cup {<<c>> : c \in CentsPerM2},
        area \in {<<>>} \cup {<<[m |-> a.m, e |-> a.e, unit |-> u, spaced |-> sp]>> :
                                  a \in Areas, u \in Units, sp \in BOOLEAN}}

\* normalize_numeric_columns(df): the table handed over gets the new columns
\* in place, and the table returned is a new one without Platiba and Cena
NormalizeCall ==
    /\ entry = "normalize_numeric_columns"
    /\ pc = "call"
    /\ arg' = [arg EXCEPT !.df = AssignedInPlace(arg.df)]
    /\ ret' = <<normalize_numeric_columns(arg.df)>>
    /\ pc' = "done"
    /\ UNCHANGED <<pag_calls, site, session, traffic, entry, raised_in, listing, pagVars, phase1Vars,
                   collectVars, phase2Vars>>

InitNumeric ==
    /\ entry = "normalize_numeric_columns"
    /\ pc = "call"
    /\ raised_in = ""
    /\ listing = <<>>
    /\ sell_url = <<>>
    /\ max_pages = DefaultMaxPages
    /\ pages = <<>>
    /\ page = 1
    /\ pag_requests = <<>>
    /\ IdlePhase1
    /\ IdleCollect
    /\ IdlePhase2
    /\ IdleSession
    /\ pag_calls = <<>>
    /\ IdleSite
    /\ arg \in NumericInputs
    /\ ret = <<>>

NextNumeric == NormalizeCall

SpecNumeric == InitNumeric /\ [][NextNumeric]_vars /\ WF_vars(NextNumeric)

-----------------------------------------------------------------------------
(* extract_datums called by itself, on a page whose strings are spelled from
   what they hold: a label or none, and a date or none *)

\* the greatest number of strings of the page
MaxStrings == 3

TwoDigits(n) == <<ToString(n \div 10), ToString(n % 10)>>

\* what a string begins with: nothing, the label, or the label glued to a
\* letter or to the "²" of a unit before it
LabelSpelling(form) ==
    CASE form = "label" -> <<"D", "a", "t", "u", "m", "s", ":">>
      [] form = "glued" -> <<"x", "D", "a", "t", "u", "m", "s", ":">>
      [] form = "after_unit" -> <<"m", "²", "D", "a", "t", "u", "m", "s", ":">>
      [] OTHER -> <<>>

\* what a string ends with: nothing, a date as DD.MM.YYYY. or as YYYY-MM-DD,
\* or a day written DD.MM.YYYY with no dot after the year
DateSpelling(form) ==
    CASE form = "dotted" -> TwoDigits(1) \o <<".">> \o TwoDigits(2) \o <<".">> \o Digits(2024) \o <<".">>
      [] form = "iso" -> Digits(2023) \o <<"-">> \o TwoDigits(11) \o <<"-">> \o TwoDigits(15)
      [] form = "undotted" -> TwoDigits(5) \o <<".">> \o TwoDigits(6) \o <<".">> \o Digits(2022)
      [] OTHER -> <<>>

PageStrings ==
    [label : {"none", "label"}, date : {"none", "dotted", "iso", "undotted"}]
        \cup [label : {"glued", "after_unit"}, date : {"none", "dotted"}]

\* the string without the whitespace around it
Core(x) ==
    LabelSpelling(x.label)
      \o (IF x.label # "none" /\ x.date # "none" THEN <<" ">> ELSE <<>>)
      \o DateSpelling(x.date)

\* the string as the page holds it
StringText(x) == <<" ">> \o Core(x) \o <<" ">>

\* the page: the first cut strings stand under one element and the others
\* under the next
PageOf(strings, cut) ==
    LET texts == [k \in 1..Len(strings) |-> StringText(strings[k])]
    IN AdPage(<<>>,
              IF strings = <<>> THEN <<>>
              ELSE IF cut = 0 \/ cut = Len(strings) THEN <<texts>>
              ELSE <<SubSeq(texts, 1, cut), SubSeq(texts, cut + 1, Len(texts))>>)

DatumsInputs ==
    {[strings |-> x[1], cut |-> x[2], adpage |-> PageOf(x[1], x[2])] :
        x \in {y \in SeqsUpTo(PageStrings, MaxStrings) \X (0..MaxStrings) : y[2] <= Len(y[1])}}

\* extract_datums(soup)
DatumsCall ==
    /\ entry = "extract_datums"
    /\ pc = "call"
    /\ ret' = <<extract_datums(arg.adpage)>>
    /\ pc' = "done"
    /\ UNCHANGED <<pag_calls, arg, site, session, traffic, entry, raised_in, listing, pagVars, phase1Vars,
                   collectVars, phase2Vars>>

InitDatums ==
    /\ entry = "extract_datums"
    /\ pc = "call"
    /\ raised_in = ""
    /\ listing = <<>>
    /\ sell_url = <<>>
    /\ max_pages = DefaultMaxPages
    /\ pages = <<>>
    /\ page = 1
    /\ pag_requests = <<>>
    /\ IdlePhase1
    /\ IdleCollect
    /\ IdlePhase2
    /\ IdleSession
    /\ pag_calls = <<>>
    /\ IdleSite
    /\ arg \in DatumsInputs
    /\ ret = <<>>

NextDatums == DatumsCall

SpecDatums == InitDatums /\ [][NextDatums]_vars /\ WF_vars(NextDatums)

-----------------------------------------------------------------------------
(* run_two_phase against a site that stays as it is during the run: every
   request of a URL gets the answer that URL got before *)

\* the category page the site serves at url: its anchors, or 404 when the site
\* has no such category
CatPage(url) ==
    IF url \in DOMAIN site.cats THEN CatResp(200, site.cats[url]) ELSE CatResp(404, <<>>)

\* regions = discover_regions(root) against the site
SiteDiscoverRegions == RootPageAnswered(CatPage(norm_cat(ROOT)))

\* subs = discover_subregions(reg) against the site
SiteDiscoverSubregions ==
    /\ pc = "region_loop"
    /\ ri <= Len(regions)
    /\ RegionPageAnswered(CatPage(norm_cat(regions[ri])))

\* the longest listing table of the site
MaxSiteTable == 2

\* the number of the listing page of a category that has the given URL
PageNumber(owner, page_url) ==
    CHOOSE n \in 1..(MaxSiteTable + 1) :
        PageUrl(norm_cat(owner) \o <<"sell", "/">>, n) = page_url

\* r = sess().get(page_url) in collect_ad_links_from_pages against the site:
\* the page answers what it answered to discover_pagination_for_sell
SiteCollectStep ==
    /\ pc = "collect"
    /\ idx <= Len(listing_pages)
    /\ LET r == Answer(listing, PageNumber(listing_pages[idx][1], listing_pages[idx][2]))
       IN /\ CollectPage(r)
          /\ last_links' = LinksOnPage(r)
          /\ found' = found \cup Range(LinksOnPage(r))

\* the ad page the site serves at link: a complete ad but for the elements it
\* lacks, an ad with no field element and no label, or 404
AdAnswer(link) ==
    LET k == CHOOSE k \in DOMAIN site.ads : BASE \o AdHref(k) = link
    IN CASE site.ads[k] = "full" -> AdResp(200, Lacking(FullAd, site.lacks[k]), link)
         [] site.ads[k] = "bare" -> AdResp(200, BareAd, link)
         [] OTHER -> AdResp(404, BareAd, link)

\* parse_ad_details(link) against the site
SiteParseStep ==
    /\ pc = "parse"
    /\ ai <= Len(ad_links)
    /\ ParseAd(AdAnswer(ad_links[ai]))

\* the listing pages the site may serve: two ads, one ad, no ad row, and a
\* page number the site does not have, redirected to the bare /sell/ page
TwoAds == Resp(200, <<HeadRow, AdRow(1), AdRow(2)>>, "same")

OneAd == Resp(200, <<AdRow(2)>>, "same")

NoAds == Resp(200, <<HeadRow>>, "same")

ToFirstPage == Resp(200, <<HeadRow, AdRow(1), AdRow(2)>>, "base")

\* the listing tables of a site: a category has finitely many pages, so the
\* last answer, which every later page repeats, is one that ends the pagination
SiteTables ==
    {t \in NonEmptySeqsUpTo({TwoAds, OneAd, NoAds, ToFirstPage}, MaxSiteTable) :
        Last(t) \in {NoAds, ToFirstPage}}

CentreUrl == norm_cat(HCentre)

KauguriUrl == norm_cat(HKauguri)

OldTownUrl == norm_cat(HOldTown)

\* the category trees of a site.  The root page links one region, or two, or
\* it links a region by its /sell/ listing next to a category two levels down,
\* a menu link and a link out of the scope; the page of a region links no
\* category, or one a level below, or categories of several depths and of
\* another region; the page of a subregion links no category or one below it.
SiteCats ==
    {(norm_cat(ROOT) :> rootp) @@ (RigaUrl :> rigap) @@ (JurmalaUrl :> jurp)
        @@ (CentreUrl :> cenp) @@ (KauguriUrl :> <<>>) @@ (OldTownUrl :> <<>>) :
        rootp \in {<<Anchor("a_category", HRiga)>>,
                   <<Anchor("a_category", HRiga), Anchor("a_category", HJurmala)>>,
                   <<Anchor("a_category", HCentre), Anchor("a_category", HRigaSell),
                     Anchor("a_menu", HJurmala), Anchor("a_category", HTransport)>>},
        rigap \in {<<>>,
                   <<Anchor("a_category", HCentre)>>,
                   <<Anchor("a_category", HOldTown), Anchor("a_category", HKauguri),
                     Anchor("a_category", HCentre), Anchor("a_category", HRiga)>>},
        jurp \in {<<>>, <<Anchor("a_category", HCentre)>>},
        cenp \in {<<>>, <<Anchor("a_category", HOldTown)>>}}

\* the ad pages of a site
SiteAds == [{1, 2} -> {"full", "bare", "gone"}]

InitSite ==
    /\ entry = "run_two_phase"
    /\ pc = "discover_regions"
    /\ raised_in = ""
    /\ listing \in SiteTables
    /\ site \in [cats : SiteCats, ads : SiteAds, lacks : {[k \in {1, 2} |-> {}]}]
    /\ sell_url = <<>>
    /\ max_pages = DefaultMaxPages
    /\ pages = <<>>
    /\ page = 1
    /\ pag_requests = <<>>
    /\ regions = <<>>
    /\ subregions_by_region = <<>>
    /\ listing_pages = <<>>
    /\ ri = 0
    /\ targets = <<>>
    /\ ti = 0
    /\ cat_fetches = <<>>
    /\ graph = {norm_cat(ROOT)}
    /\ IdleCollect
    /\ IdlePhase2
    /\ IdleSession
    /\ pag_calls = <<>>
    /\ IdleCall

NextSite ==
    \/ SiteDiscoverRegions
    \/ SiteDiscoverSubregions
    \/ CallPagination
    \/ PagStep
    \/ PagReturnPhase1
    \/ NextRegion
    \/ Phase1Return
    \/ SiteCollectStep
    \/ CollectReturn
    \/ SiteParseStep
    \/ Phase2Return

SpecSite == InitSite /\ [][NextSite]_vars /\ WF_vars(NextSite)

-----------------------------------------------------------------------------
(* phase2_scrape_inventory over ads whose pages lack some of the elements *)

ElementIds == {FieldIds[i][2] : i \in 1..Len(FieldIds)}

\* one listing page with two ads; the page of the first ad lacks any subset of
\* the elements, the page of the second has them all or lacks them all
InitFields ==
    /\ entry = "phase2_scrape_inventory"
    /\ pc = "collect"
    /\ raised_in = ""
    /\ listing = <<TwoAds, NoAds>>
    /\ site \in [cats : {<<>>}, ads : {[k \in {1, 2} |-> "full"]},
                 lacks : {f \in [{1, 2} -> SUBSET ElementIds] : f[2] \in {{}, ElementIds}}]
    /\ sell_url = <<>>
    /\ max_pages = DefaultMaxPages
    /\ pages = <<>>
    /\ page = 1
    /\ pag_requests = <<>>
    /\ regions = <<>>
    /\ subregions_by_region = <<>>
    /\ listing_pages = <<<<RigaUrl, PageUrl(RigaUrl \o <<"sell", "/">>, 1)>>>>
    /\ ri = 0
    /\ targets = <<>>
    /\ ti = 0
    /\ cat_fetches = <<>>
    /\ graph = {}
    /\ seen = {}
    /\ all_links = <<>>
    /\ idx = 1
    /\ last_links = <<>>
    /\ found = {}
    /\ IdlePhase2
    /\ IdleSession
    /\ pag_calls = <<>>
    /\ IdleCall

NextFields ==
    \/ SiteCollectStep
    \/ CollectReturn
    \/ SiteParseStep
    \/ Phase2Return

SpecFields == InitFields /\ [][NextFields]_vars /\ WF_vars(NextFields)

-----------------------------------------------------------------------------
(* Claims about phase1_discover_inventory, checked under SpecPhase1 *)

Terminated == pc \in {"done", "raised"}

\* where phase1_discover_inventory stands: the region it is at, whether it is
\* inside the targets of that region and at which one, whether it is inside
\* the pagination of that target, at which page, and whether that is over
Position ==
    CASE pc = "discover_regions" -> <<0, 0, 0, 0, 0, 0>>
      [] pc = "region_loop"      -> <<ri, 0, 0, 0, 0, 0>>
      [] pc = "target_loop"      -> <<ri, 1, ti, 0, 0, 0>>
      [] pc = "paginate"         -> <<ri, 1, ti, 1, page, 0>>
      [] pc = "pag_return"       -> <<ri, 1, ti, 1, page, 1>>
      [] OTHER                   -> <<ri + 1, 0, 0, 0, 0, 0>>

\* a comes before b in the lexicographic order
LexLess(a, b) ==
    \E i \in 1..Len(a) : SubSeq(a, 1, i - 1) = SubSeq(b, 1, i - 1) /\ a[i] < b[i]

\* the positions lie in a finite range fixed by the regions and targets found
PositionBounded ==
    /\ ri <= Len(regions) + 1
    /\ ti <= Len(targets) + 1
    /\ page <= max_pages + 1

\* C1: phase1_discover_inventory terminates, and while it runs no canonical
\* category URL (the root, a region) is fetched as a category page twice: the
\* category-page fetches never outnumber the distinct canonical category URLs
\* of the link graph.  Termination: every step moves the position forward in
\* a bounded lexicographic order, and a step is possible until the end.
C1_NoRefetchAndTerminates ==
    /\ [](~HasDuplicates(cat_fetches) /\ Len(cat_fetches) <= Cardinality(graph))
    /\ [][LexLess(Position, Position')]_vars
    /\ [](PositionBounded /\ (Terminated \/ ENABLED NextPhase1))

C1_Witness ==
    /\ pc = "done"
    /\ cat_fetches = <<norm_cat(ROOT), JurmalaUrl, RigaUrl>>
    /\ Cardinality(graph) = 3
    /\ listing_pages # <<>>

\* C2: a failed fetch of a category page (the root or a region) makes that
\* node a dead end and never aborts phase1_discover_inventory.
C2_CategoryFailureNeverAborts ==
    ~(pc = "raised" /\ raised_in \in {"discover_regions", "discover_subregions"})

-----------------------------------------------------------------------------
(* Claims about phase2_scrape_inventory, checked under SpecPhase2 *)

\* the first occurrence of every element of s, in order
RECURSIVE FirstOccurrences(_)
FirstOccurrences(s) ==
    IF s = <<>> THEN <<>>
    ELSE LET init == FirstOccurrences(SubSeq(s, 1, Len(s) - 1))
         IN IF Last(s) \in Range(init) THEN init ELSE Append(init, Last(s))

Link(k) == BASE \o AdHref(k)

LinksOf(recs) == [i \in 1..Len(recs) |-> recs[i]["Link"]]

\* C6: the list collect_ad_links_from_pages builds holds no link twice, holds
\* as many links as there are distinct links on the listing pages answered so
\* far, and is ordered by first appearance: with every page processed it
\* becomes the first-occurrence subsequence of what it was followed by the
\* links of that page in row order, so after any prefix of the pages it is the
\* first-occurrence subsequence of the links seen so far; it is what is returned.
C6_FirstSeenOrder ==
    /\ [][idx' = idx + 1 => all_links' = FirstOccurrences(all_links \o last_links')]_vars
    /\ [](/\ ~HasDuplicates(all_links)
          /\ Len(all_links) = Cardinality(found)
          /\ Range(all_links) = found
          /\ pc \in {"parse", "done"} => ad_links = all_links)

C6_Witness ==
    /\ pc = "collect"
    /\ idx = 3
    /\ last_links = <<Link(2), Link(1)>>
    /\ all_links = <<Link(1), Link(2)>>

\* the links of the ad requests that succeeded, in request order
Succeeded(log) ==
    LET ok == SelectSeq(log, LAMBDA e : e[2])
    IN [i \in 1..Len(ok) |-> ok[i][1]]

\* C7: an ad whose extraction fails is skipped; every ad link is still
\* requested, in order, the table holds a record for exactly the links whose
\* extraction succeeded, and no failure of an ad aborts the batch.
C7_FailedAdSkipped ==
    /\ raised_in # "parse_ad_details"
    /\ pc = "done" =>
          /\ [i \in 1..Len(ad_log) |-> ad_log[i][1]] = ad_links
          /\ LinksOf(df) = Succeeded(ad_log)

C7_Witness ==
    /\ pc = "done"
    /\ ad_log = <<<<Link(1), FALSE>>, <<Link(2), TRUE>>>>
    /\ LinksOf(df) = <<Link(2)>>

\* C10: every record of the returned table has a Link, no two records share
\* one, each record is the first one parsed for its Link, and the records
\* stand in the first-seen order of their links.
C10_LinksUniqueFirstSeen ==
    pc = "done" =>
        /\ \A i \in 1..Len(df) : "Link" \in DOMAIN df[i]
        /\ ~HasDuplicates(LinksOf(df))
        /\ SelectSeq(ad_links, LAMBDA l : l \in Range(LinksOf(df))) = LinksOf(df)
        /\ \A i \in 1..Len(df) :
              LET first == CHOOSE j \in 1..Len(details) :
                              /\ details[j]["Link"] = df[i]["Link"]
                              /\ \A k \in 1..(j - 1) : details[k]["Link"] # df[i]["Link"]
              IN \A c \in DOMAIN details[first] \cap DOMAIN df[i] : df[i][c] = details[first][c]

C10_Witness ==
    /\ pc = "done"
    /\ ad_links = <<Link(2), Link(1)>>
    /\ LinksOf(df) = <<Link(2), Link(1)>>

-----------------------------------------------------------------------------
(* Claims about run_two_phase, checked under Spec *)

\* C8: a failed fetch of a listing page, during pagination discovery or during
\* link collection, skips only that page or category: it never ends the run.
C8_ListingFailureNeverAborts ==
    ~(pc = "raised" /\ raised_in \in {"listing_rows", "collect_ad_links_from_pages"})

-----------------------------------------------------------------------------
(* Claims about the shared session, checked under SpecHttp *)

\* the answer is a transient status of the configured list or a transport error
Transient(a) == a.kind = "error" \/ a.status \in {429, 500, 502, 503, 504}

\* the answer is a 413 that carries a Retry-After header
PayloadTooLargeRetryAfter(a) == a.kind = "status" /\ a.status = 413 /\ a.retry_after

\* C9 as stated: a GET is retried only after a status among 429, 500, 502,
\* 503, 504 or a connection-level failure, it makes at most 3 attempts, the
\* fetch fails once they are spent, and a 404 is never retried.
C9_ThreeAttempts ==
    /\ \A i \in 1..(Len(attempts) - 1) : Transient(attempts[i])
    /\ Len(attempts) <= 3
    /\ (Len(attempts) = 3 /\ Transient(attempts[3])) => pc = "raised"
    /\ \A i \in 1..Len(attempts) :
          (attempts[i].kind = "status" /\ attempts[i].status = 404)
             => (i = 1 /\ Len(attempts) = 1 /\ pc = "done")

\* C9, amended: a GET is retried only after a status among 429, 500, 502, 503,
\* 504, after a 413 that carries Retry-After, or after a connection-level
\* failure; it is retried at most 3 times (4 attempts); when the last of the
\* 4 attempts is again a listed status or a connection-level failure the fetch
\* fails with an exception, and it fails on no other occasion; a status that
\* is not retried, such as 404, ends the GET at once with that response.
C9_ThreeRetries ==
    /\ \A i \in 1..(Len(attempts) - 1) :
          Transient(attempts[i]) \/ PayloadTooLargeRetryAfter(attempts[i])
    /\ Len(attempts) <= RetryTotal + 1
    /\ retries = RetryTotal - Len(attempts) + (IF pc = "done" THEN 1 ELSE 0)
    /\ pc = "raised" <=> (Len(attempts) = RetryTotal + 1 /\ Transient(Last(attempts)))
    /\ pc = "raised" =>
          get_outcome = (IF Last(attempts).kind = "status" THEN "RetryError" ELSE "ConnectionError")
    /\ \A i \in 1..Len(attempts) :
          (attempts[i].kind = "status" /\ attempts[i].status \in {200, 404})
             => (i = Len(attempts) /\ pc = "done" /\ get_outcome = "response")
    /\ (attempts # <<>> /\ attempts[1].kind = "status" /\ attempts[1].status = 404)
          => Len(attempts) = 1

\* a GET that was answered 503, then failed to connect, then was answered 500
\* twice, and so failed after its fourth attempt
C9_Witness ==
    /\ pc = "raised"
    /\ get_outcome = "RetryError"
    /\ Len(attempts) = RetryTotal + 1
    /\ attempts[1] = StatusAnswer(503, FALSE)
    /\ attempts[2] = ErrorAnswer("NewConnectionError")
    /\ attempts[3] = StatusAnswer(500, FALSE)
    /\ attempts[4] = StatusAnswer(500, FALSE)

-----------------------------------------------------------------------------
(* Claims about run_two_phase against a site that stays as it is, checked
   under SpecSite *)

\* the site of the end-to-end scenario: the root links one category, that
\* category links none, its listing has one page with two ad rows, the page
\* after it has no ad row or is redirected to the first, and both ad pages
\* are served
OneCategorySite ==
    /\ site.cats[norm_cat(ROOT)] = <<Anchor("a_category", HRiga)>>
    /\ site.cats[RigaUrl] = <<>>
    /\ Len(listing) >= 2
    /\ listing[1] = TwoAds
    /\ listing[2] \in {NoAds, ToFirstPage}
    /\ \A k \in DOMAIN site.ads : site.ads[k] # "gone"

\* C11: end to end, on a site whose root has one subcategory, whose listing
\* has one page with 2 ad rows (the next page empty or redirected) and whose
\* two ad pages are fetchable, run_two_phase raises nothing and returns exactly
\* 2 records, with distinct Links, all stamped with one day of the run.
C11_EndToEnd ==
    OneCategorySite =>
        /\ pc # "raised"
        /\ pc = "done" =>
              /\ Len(df) = 2
              /\ df[1]["Link"] # df[2]["Link"]
              /\ {df[1]["Link"], df[2]["Link"]} = {Link(1), Link(2)}
              /\ \E day \in Dates : \A i \in 1..Len(df) : df[i]["Datu iev."] = day

C11_Witness ==
    /\ OneCategorySite
    /\ listing[2] = ToFirstPage
    /\ site.ads[1] = "full"
    /\ site.ads[2] = "bare"
    /\ pc = "done"
    /\ LinksOf(df) = <<Link(1), Link(2)>>
    /\ listing_pages = <<<<RigaUrl, RigaUrl \o <<"sell", "/">>>>>>

\* the categories the page of category n links: the canonical URLs of its
\* category-link anchors that stay under the root
Children(n) == IF n \in DOMAIN site.cats THEN LinkedCategories(site.cats[n]) ELSE {}

\* the categories reached from those of S by following such links, S included
RECURSIVE ReachableFrom(_)
ReachableFrom(S) ==
    LET next == S \cup UNION {Children(n) : n \in S}
    IN IF next = S THEN S ELSE ReachableFrom(next)

\* the categories of the inventory phase1_discover_inventory returns
Inventory ==
    Range(regions) \cup UNION {Range(subregions_by_region[r]) : r \in DOMAIN subregions_by_region}

\* phase1_discover_inventory has returned
Phase1Returned == pc \in {"collect", "parse", "done"}

\* C12 as stated: every category reachable from the root by same-scope
\* category links, at any depth, is in the inventory (regions or
\* subregions_by_region) that phase1_discover_inventory returns.
C12_AllReachableDiscovered ==
    Phase1Returned => (ReachableFrom({norm_cat(ROOT)}) \ {norm_cat(ROOT)}) \subseteq Inventory

\* the categories one path segment deeper than category n that its page links
OneDeeper(n) == {u \in Children(n) : Parts(u) = Parts(n) + 1}

\* C12, amended: discovery goes two levels deep.  The regions returned are
\* exactly the categories one path segment below the root that the root page
\* links, each region has an entry in subregions_by_region, and that entry
\* holds exactly the categories one path segment deeper than the region that
\* the page of the region links; nothing else is in the inventory.
C12_TwoLevelsDiscovered ==
    Phase1Returned =>
        /\ Range(regions) = OneDeeper(norm_cat(ROOT))
        /\ DOMAIN subregions_by_region = Range(regions)
        /\ \A r \in Range(regions) : Range(subregions_by_region[r]) = OneDeeper(r)
        /\ Inventory = OneDeeper(norm_cat(ROOT)) \cup UNION {OneDeeper(r) : r \in OneDeeper(norm_cat(ROOT))}

\* a site whose tree is three levels deep, discovered down to the second
C12_Witness ==
    /\ Phase1Returned
    /\ OldTownUrl \in ReachableFrom({norm_cat(ROOT)})
    /\ regions = <<JurmalaUrl, RigaUrl>>
    /\ subregions_by_region[RigaUrl] = <<KauguriUrl, CentreUrl>>
    /\ subregions_by_region[JurmalaUrl] = <<CentreUrl>>
    /\ OldTownUrl \notin Inventory

-----------------------------------------------------------------------------
(* Claims about norm_cat, checked under SpecNorm *)

\* C13: norm_cat is idempotent: for every category URL u, relative or
\* absolute, with or without trailing slashes, repeated slashes or a /sell/...
\* tail, norm_cat(norm_cat(u)) = norm_cat(u).
C13_NormCatIdempotent ==
    (entry = "norm_cat" /\ Len(ret) = 2) => ret[2] = ret[1]

\* the canonical URL of category path c
Canonical(c) == BASE \o c \o <<"/">>

\* C14: for every category path c, norm_cat of c with a trailing slash, of c
\* without one, of c + 'sell/' and of c + 'sell/pageN.html', site-relative or
\* absolute, returns one and the same string: the absolute URL of c ending in
\* exactly one '/'.
C14_SameCategorySameUrl ==
    (entry = "norm_cat" /\ arg.kind \in {"slash", "bare", "sell", "page"} /\ ret # <<>>) =>
        /\ ret[1] = Canonical(arg.c)
        /\ StartsWith(ret[1], BASE)
        /\ Last(ret[1]) = "/"
        /\ ret[1][Len(ret[1]) - 1] # "/"

C14_Witness ==
    /\ entry = "norm_cat"
    /\ arg.kind = "page"
    /\ ~arg.absolute
    /\ arg.url = RootPath \o <<"riga", "/", "sell", "/", "page3.html">>
    /\ ret = <<RigaUrl>>

-----------------------------------------------------------------------------
(* Claims about ad pages that lack elements, checked under SpecFields *)

\* the number of the ad at link
AdOf(link) == CHOOSE k \in DOMAIN site.ads : Link(k) = link

\* the text parse_ad_details is to record for the element id of ad k
FieldOf(k, id) == IF id \in site.lacks[k] THEN NA ELSE FullAdText(id)

\* the columns normalize_numeric_columns leaves as they are
TextFields == {i \in 1..Len(FieldIds) : FieldIds[i][1] \notin {"Platiba", "Cena"}}

\* C15: for an ad page that lacks the element of any subset of the field ids,
\* parse_ad_details does not raise; the record it returns holds 'NA' in each
\* missing field and the element's text in every other field; and the record
\* is emitted by phase2_scrape_inventory.
C15_MissingFieldsAreNA ==
    /\ pc # "raised"
    /\ \A i \in 1..Len(ad_log) : ad_log[i][2]
    /\ Len(details) = Len(ad_log)
    /\ \A i \in 1..Len(details) :
          /\ details[i]["Link"] = ad_log[i][1]
          /\ \A f \in 1..Len(FieldIds) :
                details[i][FieldIds[f][1]] = FieldOf(AdOf(details[i]["Link"]), FieldIds[f][2])
    /\ pc = "done" =>
          /\ Len(df) = Len(details)
          /\ Len(df) = 2
          /\ \A i \in 1..Len(df) :
                /\ df[i]["Link"] = details[i]["Link"]
                /\ df[i]["Datums"] = details[i]["Datums"]
                /\ \A f \in TextFields : df[i][FieldIds[f][1]] = details[i][FieldIds[f][1]]

C15_Witness ==
    /\ entry = "phase2_scrape_inventory"
    /\ site.lacks[1] = {"tdo_368", "tdo_8"}
    /\ site.lacks[2] = ElementIds
    /\ pc = "done"
    /\ Len(df) = 2
    /\ df[1]["Ciems"] = NA
    /\ df[1]["Pilseta"] = FullAdText("tdo_20")
    /\ df[2]["Pilseta"] = NA

-----------------------------------------------------------------------------
(* Claims about normalize_numeric_columns, checked under SpecNumeric *)

\* the row normalize_numeric_columns returned
Normalized == ret[1][1]

NormalizeReturned == entry = "normalize_numeric_columns" /\ ret # <<>>

\* C16: for a price text '<integer with space separators> € (<decimal with
\* comma> €/m²)', such as '15 000 € (150,00 €/m²)', normalize_numeric_columns
\* yields the integer as Cena EUR and the decimal as Cena m2; when either
\* portion is absent from the text the corresponding field is null, not zero.
C16_PriceNormalized ==
    NormalizeReturned =>
        /\ Normalized["Cena EUR"] = IF arg.eur = <<>> THEN NaN ELSE Float(arg.eur[1], 0)
        /\ Normalized["Cena m2"] = IF arg.m2 = <<>> THEN NaN ELSE Float(arg.m2[1], 2)

\* C17: the area text '2500 m²' yields the quantity 2500 and the unit 'm²', and
\* so does every quantity written without spaces with its unit; the area text
\* 'NA' yields a null quantity and the empty unit.
C17_AreaNormalized ==
    NormalizeReturned =>
        /\ arg.area = <<>> =>
              /\ Normalized["Platiba Daudzums"] = NaN
              /\ Normalized["Platiba Mervieniba"] = <<>>
        /\ (arg.area # <<>> /\ ~arg.area[1].spaced) =>
              /\ Normalized["Platiba Daudzums"] = Float(arg.area[1].m, arg.area[1].e)
              /\ Normalized["Platiba Mervieniba"] = arg.area[1].unit

C17_Witness ==
    /\ NormalizeReturned
    /\ arg.df[1]["Platiba"] = <<"2", "5", "0", "0", " ", "m", "²">>
    /\ Normalized["Platiba Daudzums"] = Float(2500, 0)
    /\ Normalized["Platiba Mervieniba"] = <<"m", "²">>

\* C20: for an area text whose quantity is written with space-separated
\* thousands and/or a comma decimal, as '2 500 m²' and '1 234,5 ha',
\* normalize_numeric_columns yields the whole number as the quantity and only
\* the trailing unit text as the unit.
C20_SpacedAreaNormalized ==
    (NormalizeReturned /\ arg.area # <<>>) =>
        /\ Normalized["Platiba Daudzums"] = Float(arg.area[1].m, arg.area[1].e)
        /\ Normalized["Platiba Mervieniba"] = arg.area[1].unit

-----------------------------------------------------------------------------
(* Claims about extract_datums, checked under SpecDatums *)

\* the strings that hold the label, and the strings that share the element of
\* the first of them
Labelled == {k \in 1..Len(arg.strings) : arg.strings[k].label = "label"}

Surrounding ==
    LET first == Least(Labelled)
    IN IF arg.cut = 0 \/ arg.cut = Len(arg.strings) THEN 1..Len(arg.strings)
       ELSE IF first <= arg.cut THEN 1..arg.cut
       ELSE (arg.cut + 1)..Len(arg.strings)

\* the strings of the positions of S in order, without the whitespace around
\* them, the empty ones left out, with a space between them
RECURSIVE Joined(_)
Joined(S) ==
    IF S = {} THEN <<>>
    ELSE LET k == Greatest(S)
             init == Joined(S \ {k})
             last == Core(arg.strings[k])
         IN IF last = <<>> THEN init
            ELSE IF init = <<>> THEN last
            ELSE init \o <<" ">> \o last

\* C18: extract_datums has three outcomes and never raises: with no string
\* matching the label 'Datums:' it returns 'NA'; with a match and a date as
\* DD.MM.YYYY. or YYYY-MM-DD in the surrounding text it returns the first such
\* date; with a match and no date it returns the surrounding text as it is.
C18_DatumsOutcomes ==
    (entry = "extract_datums" /\ pc = "done") =>
        /\ Len(ret) = 1
        /\ IF Labelled = {} THEN ret[1] = NA
           ELSE LET dated == {k \in Surrounding : arg.strings[k].date \in {"dotted", "iso"}}
                IN IF dated # {} THEN ret[1] = DateSpelling(arg.strings[Least(dated)].date)
                   ELSE ret[1] = Joined(Surrounding)

C18_Witness ==
    /\ entry = "extract_datums"
    /\ pc = "done"
    /\ arg.strings = <<[label |-> "none", date |-> "dotted"], [label |-> "label", date |-> "none"],
                       [label |-> "none", date |-> "iso"]>>
    /\ arg.cut = 1
    /\ ret = <<DateSpelling("iso")>>

-----------------------------------------------------------------------------
(* The redirect of the first page, checked under SpecPag *)

\* C19 as stated: the redirect stop rule applies to the first page too: if the
\* request of page 1, the bare /sell/ URL, resolves to a URL other than the
\* requested one, discover_pagination_for_sell ends with no pages.
C19_FirstPageRedirectStops ==
    (pc = "done" /\ RedirectedAt(1)) => pages = <<>>

\* C19 amended: the redirect stop rule applies to pages N > 1 only.  A first
\* page whose request resolves to another URL is judged by its rows alone:
\* with a listing row it is the first of the pages returned and page 2 is
\* requested next if max_pages allows; without one, no pages are returned.
C19_FirstPageJudgedByRows ==
    (pc = "done" /\ RedirectedAt(1)) =>
        IF listing_rows(Answer(listing, 1), sell_url, sell_url).rows # <<>>
        THEN /\ pages # <<>>
             /\ pages[1] = sell_url
             /\ Len(pag_requests) >= Min(2, max_pages)
        ELSE /\ pages = <<>>
             /\ pag_requests = <<sell_url>>

C19_Witness ==
    /\ pc = "done"
    /\ RedirectedAwayAt(1)
    /\ Answer(listing, 1).final = "root"
    /\ GoodPage(Answer(listing, 2))
    /\ max_pages >= 2
    /\ pages = <<SomeSell, SomeSell \o <<"page2.html">>>>

-----------------------------------------------------------------------------
(* Claims about the inventory of listing pages, checked under SpecSite and
   SpecPhase1 *)

\* the page URLs of the inventory, in order
PageUrlsOf(inventory) == [i \in 1..Len(inventory) |-> inventory[i][2]]

\* C21: no listing page URL occurs more than once in the listing_pages that
\* phase1_discover_inventory returns, and no category is paginated more than
\* once in a run, whatever the link graph of the site, also when the pages of
\* two regions hold the link of one and the same subregion.
C21_NoPageTwice ==
    /\ ~HasDuplicates(pag_calls)
    /\ Phase1Returned => ~HasDuplicates(PageUrlsOf(listing_pages))

\* the /sell/ listing of a category
SellOf(cat) == norm_cat(cat) \o <<"sell", "/">>

\* the regions whose page was answered, and what is to be paginated for them
RegionsDone == DOMAIN subregions_by_region

Expected(reg) ==
    IF subregions_by_region[reg] = <<>> THEN {reg} ELSE Range(subregions_by_region[reg])

\* C22: in phase1_discover_inventory the pagination targets of a region are
\* exactly its discovered subregions when it has any, and exactly the region
\* itself when it has none: a region with subregions never has its own /sell/
\* listing paginated, what is paginated is the /sell/ of these targets and, at
\* the end, of all of them, and every entry of listing_pages is owned by one.
C22_TargetsOfRegion ==
    /\ pc \in {"target_loop", "paginate", "pag_return"} =>
          /\ regions[ri] \in RegionsDone
          /\ Range(targets) = Expected(regions[ri])
          /\ ~HasDuplicates(targets)
    /\ \A reg \in RegionsDone :
          subregions_by_region[reg] # <<>> => SellOf(reg) \notin Range(pag_calls)
    /\ Range(pag_calls) \subseteq {SellOf(t) : t \in UNION {Expected(reg) : reg \in RegionsDone}}
    /\ \A i \in 1..Len(listing_pages) :
          /\ listing_pages[i][1] \in UNION {Expected(reg) : reg \in RegionsDone}
          /\ SellOf(listing_pages[i][1]) \in Range(pag_calls)
    /\ pc = "done" =>
          /\ RegionsDone = Range(regions)
          /\ Range(pag_calls) = {SellOf(t) : t \in UNION {Expected(reg) : reg \in RegionsDone}}

C22_Witness ==
    /\ entry = "phase1_discover_inventory"
    /\ pc = "done"
    /\ regions = <<JurmalaUrl, RigaUrl>>
    /\ subregions_by_region[JurmalaUrl] = <<>>
    /\ subregions_by_region[RigaUrl] = <<CentreUrl>>
    /\ pag_calls = <<SellOf(JurmalaUrl), SellOf(CentreUrl)>>
    /\ {listing_pages[i][1] : i \in 1..Len(listing_pages)} = {JurmalaUrl, CentreUrl}

====
